---------------------------- MODULE Spec2Model ----------------------------
(***************************************************************************)
(* A model of the ServiceNow API client of scripts/servicenow_api.py:      *)
(* configuration loading (get_config), authentication header selection     *)
(* (_get_auth_header), OAuth token acquisition (_obtain_oauth_token) and   *)
(* the request executor with its single refresh-on-401 (_make_request).    *)
(*                                                                         *)
(* Representation of Python values                                         *)
(*   str            a sequence of characters, each a one-character string; *)
(*                  a text whose characters no operation inspects (a host  *)
(*                  name, a JSON document) is written as one chunk.        *)
(*   Optional[x]    None is <<>>, a present value x is <<x>>.              *)
(*   dict           a sequence of <<key, value>> pairs in insertion order. *)
(***************************************************************************)
EXTENDS Integers, Sequences, FiniteSets, TLC

(***************************************************************************)
(* Bounds of the model.                                                    *)
(***************************************************************************)
\* facade calls made on one client
MaxCalls == 2

(***************************************************************************)
(* Optional values and truthiness.                                         *)
(***************************************************************************)
None == <<>>

Some(x) == <<x>>

Val(o) == o[1]

\* Python truthiness of an Optional[str]: None and "" are falsy.
Truthy(o) == o # None /\ Val(o) # <<>>

\* A bool object as a dict value (a parsed JSON true or false), kept apart
\* from every str.
PyBool(b) == IF b THEN <<"<True>">> ELSE <<"<False>">>

\* dict.get(key, default) on a sequence of <<key, value>> pairs.
DictGet(d, key, default) ==
    IF \E i \in 1..Len(d) : d[i][1] = key
    THEN Some((d[CHOOSE i \in 1..Len(d) : d[i][1] = key])[2])
    ELSE default

(***************************************************************************)
(* Strings.                                                                *)
(***************************************************************************)
Cat3(a, b, c) == a \o b \o c

\* str.rstrip(ch): remove every trailing occurrence of ch.
RECURSIVE RStrip(_, _)
RStrip(s, ch) ==
    IF Len(s) > 0 /\ s[Len(s)] = ch
    THEN RStrip(SubSeq(s, 1, Len(s) - 1), ch)
    ELSE s

(***************************************************************************)
(* base64.b64encode over the characters the credentials are drawn from.    *)
(***************************************************************************)
Ord(c) ==
    CASE c = "u" -> 117
      [] c = "p" -> 112
      [] c = ":" -> 58
      [] c = "a" -> 97

B64Alphabet ==
    << "A","B","C","D","E","F","G","H","I","J","K","L","M","N","O","P",
       "Q","R","S","T","U","V","W","X","Y","Z","a","b","c","d","e","f",
       "g","h","i","j","k","l","m","n","o","p","q","r","s","t","u","v",
       "w","x","y","z","0","1","2","3","4","5","6","7","8","9","+","/" >>

B64Char(n) == B64Alphabet[n + 1]

RECURSIVE B64Encode(_)
B64Encode(s) ==
    IF Len(s) = 0 THEN <<>>
    ELSE IF Len(s) = 1 THEN
        LET n == Ord(s[1]) * 65536
        IN  << B64Char(n \div 262144), B64Char((n \div 4096) % 64), "=", "=" >>
    ELSE IF Len(s) = 2 THEN
        LET n == Ord(s[1]) * 65536 + Ord(s[2]) * 256
        IN  << B64Char(n \div 262144), B64Char((n \div 4096) % 64),
               B64Char((n \div 64) % 64), "=" >>
    ELSE
        LET n == Ord(s[1]) * 65536 + Ord(s[2]) * 256 + Ord(s[3])
        IN  << B64Char(n \div 262144), B64Char((n \div 4096) % 64),
               B64Char((n \div 64) % 64), B64Char(n % 64) >>
            \o B64Encode(SubSeq(s, 4, Len(s)))


(***************************************************************************)
(* State.                                                                  *)
(*   Configuration loading (get_config):                                   *)
(*     fileVars   the mapping load_env_file() returned                     *)
(*     environ    os.environ, restricted to the SERVICENOW_* keys          *)
(*     cfgPc      "start" before get_config() has run, "done" after        *)
(*     cfgResult  what get_config() returned or raised                     *)
(*   Client (ServiceNowClient):                                            *)
(*     config       self.config                                            *)
(*     accessToken  self._access_token                                     *)
(*     tokenType    self._token_type                                       *)
(*     pc           "idle" between facade calls; inside _make_request:     *)
(*                  "auth" at headers.update(self._get_auth_header()),     *)
(*                  "request" at urlopen(request)                          *)
(*     req          the arguments of the running _make_request             *)
(*     retry        its _retry flag                                        *)
(*     authHeader   the header _get_auth_header returned for this attempt  *)
(*     log          the urlopen calls of the running facade call, in order *)
(*     outcome      what the last facade call returned or raised           *)
(*     ncalls       facade calls started on this client                    *)
(*     tokenAtStart self._access_token when the running facade call began  *)
(*     past         of the client's earlier facade calls: how many token    *)
(*                  requests they made, and whether any response was a 401  *)
(*     timeoutArg   the timeout argument of ServiceNowClient(config, timeout) *)
(*     timeout      self.timeout                                           *)
(*     getArgs      the optional arguments of the running get() call       *)
(*   a collaborator script's main():                                       *)
(*     script       the collaborator whose main() runs                     *)
(*     stdin        the text on standard input                             *)
(*     cliPc        "start" at read_json_input(), "dispatch" at            *)
(*                  dispatch_action(params), "handler" while the handler's *)
(*                  client.get runs, "exited" after the process has ended  *)
(*     cliParams    params, what read_json_input() returned                *)
(*     caught       the exception that ended main()'s try block, if any    *)
(*     stdout       the texts printed to standard output, in order         *)
(*     stderr       the texts printed to standard error, in order          *)
(*     exitCode     the exit status of the process, once it has ended      *)
(*   the env-file loader:                                                  *)
(*     rawValue     the argument of _parse_quoted_value(value)             *)
(*     parsedValue  what _parse_quoted_value returned                      *)
(*     envFile      the first candidate env file that exists, as its lines *)
(*                  (None: no candidate exists)                            *)
(*     env_vars     what load_env_file() returned                          *)
(*     loadPc       "value" before _parse_quoted_value runs, "file" before *)
(*                  load_env_file runs, "done" after, "unused" otherwise   *)
(***************************************************************************)
VARIABLES fileVars, environ, cfgPc, cfgResult,
          config, accessToken, tokenType, pc, req, retry, authHeader,
          log, outcome, ncalls, tokenAtStart, timeoutArg, timeout, getArgs,
          past,
          script, stdin, cliPc, cliParams, caught, stdout, stderr, exitCode,
          rawValue, parsedValue, envFile, env_vars, loadPc

cfgVars == << fileVars, environ, cfgPc, cfgResult >>

clientVars == << config, accessToken, tokenType, pc, req, retry, authHeader,
                 log, outcome, ncalls, tokenAtStart, timeoutArg, timeout,
                 getArgs, past >>

cliVars == << script, stdin, cliPc, cliParams, caught, stdout, stderr,
             exitCode >>

loaderVars == << rawValue, parsedValue, envFile, env_vars, loadPc >>

vars == << cfgVars, clientVars, cliVars, loaderVars >>

(***************************************************************************)
(* get_config                                                              *)
(***************************************************************************)
ConfigKeys ==
    { "instance", "username", "password", "client_id", "client_secret",
      "api_key", "timeout" }

\* Values the config file may give each key (None: the key is not in the file).
FileValues ==
    [ instance      |-> { None, Some(<<"https://h", "/">>) },
      username      |-> { None, Some(<<"u">>) },
      password      |-> { None, Some(<<"p">>) },
      client_id     |-> { None, Some(<<"c">>) },
      client_secret |-> { None, Some(<<"s">>) },
      api_key       |-> { None, Some(<<"k">>) },
      timeout       |-> { None, Some(<<"3", "0">>), Some(<<"-", "5">>) } ]

\* Values the process environment may give each key (None: the variable is unset).
EnvValues ==
    [ instance      |-> { None, Some(<<>>), Some(<<"https://e">>),
                          Some(<<"https://e", "/", "/">>), Some(<<"/">>) },
      username      |-> { None, Some(<<"a">>) },
      password      |-> { None, Some(<<>>) },
      client_id     |-> { None, Some(<<>>) },
      client_secret |-> { None, Some(<<"s", "2">>) },
      api_key       |-> { None, Some(<<>>), Some(<<" ">>) },
      timeout       |-> { None, Some(<<"a", "b", "c">>), Some(<<"0">>) } ]

\* A variant in which the config file wins over the environment.
EnvOrFileFileFirst(env, file, key) ==
    IF file[key] # None THEN file[key] ELSE env[key]

\* os.environ.get(KEY, file_vars.get(KEY)): a set environment variable wins,
\* also when it is set to the empty string.
EnvOrFile(env, file, key) ==
    IF env[key] # None THEN env[key] ELSE file[key]

Digits == { "0", "1", "2", "3", "4", "5", "6", "7", "8", "9" }

DigitValue(c) ==
    CASE c = "0" -> 0 [] c = "1" -> 1 [] c = "2" -> 2 [] c = "3" -> 3
      [] c = "4" -> 4 [] c = "5" -> 5 [] c = "6" -> 6 [] c = "7" -> 7
      [] c = "8" -> 8 [] c = "9" -> 9

RECURSIVE DecimalValue(_)
DecimalValue(s) ==
    IF Len(s) = 0 THEN 0
    ELSE DecimalValue(SubSeq(s, 1, Len(s) - 1)) * 10 + DigitValue(s[Len(s)])

\* int(timeout_str) succeeds on an optionally signed run of digits (the
\* surrounding whitespace and the underscores int() also accepts are not in
\* the value sets).
IsIntLiteral(s) ==
    LET body == IF Len(s) > 0 /\ s[1] \in { "-", "+" } THEN Tail(s) ELSE s
    IN  Len(body) > 0 /\ \A i \in 1..Len(body) : body[i] \in Digits

IntOf(s) ==
    IF s[1] = "-" THEN 0 - DecimalValue(Tail(s))
    ELSE IF s[1] = "+" THEN DecimalValue(Tail(s))
    ELSE DecimalValue(s)

\* timeout_value: None unless timeout_str is truthy and int() accepts it.
TimeoutValue(timeout_str) ==
    IF Truthy(timeout_str) /\ IsIntLiteral(Val(timeout_str))
    THEN Some(IntOf(Val(timeout_str)))
    ELSE None

\* What get_config logs about timeout_str, in order: the except ValueError
\* clause is a bare pass and the module has no logger, so an invalid value is
\* dropped without a message.
TimeoutWarnings(timeout_str) == <<>>

MergedConfig(env, file) ==
    [ instance      |-> EnvOrFile(env, file, "instance"),
      username      |-> EnvOrFile(env, file, "username"),
      password      |-> EnvOrFile(env, file, "password"),
      client_id     |-> EnvOrFile(env, file, "client_id"),
      client_secret |-> EnvOrFile(env, file, "client_secret"),
      api_key       |-> EnvOrFile(env, file, "api_key"),
      timeout       |-> TimeoutValue(EnvOrFile(env, file, "timeout")) ]

InstanceMissing(cfg) == ~Truthy(cfg.instance)

\* A variant that accepts a username without a password.
has_basic_auth_username_only(cfg) == Truthy(cfg.username)

has_basic_auth(cfg) == Truthy(cfg.username) /\ Truthy(cfg.password)

has_oauth(cfg) == Truthy(cfg.client_id) /\ Truthy(cfg.client_secret)

has_api_key(cfg) == Truthy(cfg.api_key)

NoValidAuth(cfg) == ~(has_basic_auth(cfg) \/ has_oauth(cfg) \/ has_api_key(cfg))

StripInstance(cfg) ==
    [cfg EXCEPT !.instance = Some(RStrip(Val(cfg.instance), "/"))]

NoConfig ==
    [ instance |-> None, username |-> None, password |-> None,
      client_id |-> None, client_secret |-> None, api_key |-> None,
      timeout |-> None ]

\* get_config(): the returned dict, or the ConfigurationError raised, and
\* what was logged on the way.
get_config(env, file) ==
    LET cfg == MergedConfig(env, file)
        logged == TimeoutWarnings(EnvOrFile(env, file, "timeout"))
    IN  IF InstanceMissing(cfg)
        THEN [ raised |-> "ConfigurationError",
               message |-> "SERVICENOW_INSTANCE is required",
               config |-> NoConfig, warnings |-> logged ]
        ELSE IF NoValidAuth(StripInstance(cfg))
        THEN [ raised |-> "ConfigurationError",
               message |-> "No valid authentication configured",
               config |-> NoConfig, warnings |-> logged ]
        ELSE [ raised |-> "", message |-> "", config |-> StripInstance(cfg),
               warnings |-> logged ]

NotRun ==
    [ raised |-> "", message |-> "not run", config |-> NoConfig,
      warnings |-> <<>> ]

GetConfig ==
    /\ cfgPc = "start"
    /\ cfgResult' = get_config(environ, fileVars)
    /\ cfgPc' = "done"
    /\ UNCHANGED << fileVars, environ >>
    /\ UNCHANGED clientVars
    /\ UNCHANGED cliVars
    /\ UNCHANGED loaderVars


(***************************************************************************)
(* JSON and URL encoding, over the texts the model exchanges.              *)
(***************************************************************************)
TokenJson1 == <<"{\"access_token\": \"t1\", \"token_type\": \"Bearer\"}">>

TokenJson2 == <<"{\"access_token\": \"t2\"}">>

TokenJson3 == <<"{\"access_token\": \"t2\", \"token_type\": \"Custom\"}">>

TokenJsonNoToken == <<"{\"token_type\": \"Custom\"}">>

TokenJsonEmptyToken == <<"{\"access_token\": \"\"}">>

ResultJson == <<"{\"result\": []}">>

ListJson == <<"{\"result\": [{\"sys_id\": \"abc123\"}]}">>

ErrorJson == <<"{\"error\": \"denied\"}">>

HtmlText == <<"<html>maintenance</html>">>

\* json.loads(text): the parsed dict, or ok = FALSE for json.JSONDecodeError.
JsonLoads(text) ==
    CASE text = TokenJson1 ->
           [ ok |-> TRUE,
             value |-> << <<"access_token", <<"t1">> >>,
                          <<"token_type", <<"Bearer">> >> >> ]
      [] text = TokenJson2 ->
           [ ok |-> TRUE, value |-> << <<"access_token", <<"t2">> >> >> ]
      [] text = TokenJson3 ->
           [ ok |-> TRUE,
             value |-> << <<"access_token", <<"t2">> >>,
                          <<"token_type", <<"Custom">> >> >> ]
      [] text = TokenJsonNoToken ->
           [ ok |-> TRUE, value |-> << <<"token_type", <<"Custom">> >> >> ]
      [] text = TokenJsonEmptyToken ->
           [ ok |-> TRUE, value |-> << <<"access_token", <<>> >> >> ]
      [] text = ResultJson ->
           [ ok |-> TRUE, value |-> << <<"result", <<>> >> >> ]
      [] text = ListJson ->
           [ ok |-> TRUE,
             value |-> << <<"result", << << <<"sys_id", <<"abc123">> >> >> >> >> >> ]
      [] text = ErrorJson ->
           [ ok |-> TRUE, value |-> << <<"error", <<"denied">> >> >> ]
      [] OTHER -> [ ok |-> FALSE, value |-> <<>> ]

RECURSIVE JsonMembers(_)
JsonMembers(d) ==
    IF Len(d) = 0 THEN <<>>
    ELSE <<"\"", d[1][1], "\"", ":", " ">>
         \o (IF d[1][2] = PyBool(TRUE) THEN <<"true">>
             ELSE IF d[1][2] = PyBool(FALSE) THEN <<"false">>
             ELSE <<"\"">> \o d[1][2] \o <<"\"">>)
         \o (IF Len(d) > 1 THEN <<",", " ">> ELSE <<>>)
         \o JsonMembers(Tail(d))

\* json.dumps(data) of a dict of strings and booleans.
JsonDumps(d) == <<"{">> \o JsonMembers(d) \o <<"}">>

\* body = json.dumps(data).encode() if data else None
RequestBody(data) ==
    IF data # None /\ Val(data) # <<>> THEN Some(JsonDumps(Val(data))) ELSE None

\* urllib.parse.quote_plus, character by character.
QuoteChar(c) ==
    CASE c = " " -> <<"+">>
      [] c = "=" -> <<"%", "3", "D">>
      [] c = "^" -> <<"%", "5", "E">>
      [] c = "," -> <<"%", "2", "C">>
      [] c = "&" -> <<"%", "2", "6">>
      [] OTHER -> <<c>>

RECURSIVE QuotePlus(_)
QuotePlus(s) ==
    IF Len(s) = 0 THEN <<>> ELSE QuoteChar(s[1]) \o QuotePlus(Tail(s))

RECURSIVE UrlEncode(_)
UrlEncode(params) ==
    IF Len(params) = 0 THEN <<>>
    ELSE QuotePlus(<<params[1][1]>>) \o <<"=">> \o QuotePlus(params[1][2])
         \o (IF Len(params) > 1 THEN <<"&">> ELSE <<>>)
         \o UrlEncode(Tail(params))

\* final_url: the query string is appended when params is non-empty.
FinalUrl(url, params) ==
    IF params # None /\ Val(params) # <<>>
    THEN url \o <<"?">> \o UrlEncode(Val(params))
    ELSE url

\* _build_url with the default api_path.
BuildUrl(instance, table, sys_id) ==
    IF Truthy(sys_id)
    THEN instance \o <<"/api/now/table">> \o <<"/">> \o table \o <<"/">> \o Val(sys_id)
    ELSE instance \o <<"/api/now/table">> \o <<"/">> \o table

TokenUrl(instance) == instance \o <<"/oauth_token.do">>

\* urlencode of the client-credentials form.
TokenForm(cfg) ==
    UrlEncode(<< <<"grant_type", <<"client_credentials">> >>,
                 <<"client_id", Val(cfg.client_id)>>,
                 <<"client_secret", Val(cfg.client_secret)>> >>)

(***************************************************************************)
(* What urlopen can do: return a response, raise HTTPError, raise URLError.*)
(***************************************************************************)
HttpOk(text) == [ kind |-> "ok", code |-> 200, text |-> Some(text) ]

\* text = None: the HTTPError has no body stream (e.fp is None).
HttpErr(code, text) == [ kind |-> "http", code |-> code, text |-> text ]

UrlErr == [ kind |-> "url", code |-> 0, text |-> None ]

\* An HTTPError's body: none, empty, JSON, or another text.
ErrorBodies == { None, Some(<<>>), Some(ErrorJson), Some(HtmlText) }

TokenResponses ==
    { HttpOk(t) : t \in { TokenJson1, TokenJson2, TokenJson3, TokenJsonNoToken,
                          TokenJsonEmptyToken, HtmlText } }
    \cup { HttpErr(c, b) : c \in { 400, 401, 500 }, b \in ErrorBodies }
    \cup { UrlErr }

ApiResponses ==
    { HttpOk(t) : t \in { <<>>, ResultJson, ListJson, HtmlText } }
    \cup { HttpErr(c, b) : c \in { 400, 401, 403, 404, 429, 500, 503 },
                           b \in ErrorBodies }
    \cup { UrlErr }


(***************************************************************************)
(* Exceptions and results of a facade call.                                *)
(***************************************************************************)
NoOutcome ==
    [ kind |-> "none", cls |-> "", message |-> "", status |-> None,
      body |-> None, value |-> <<>> ]

Returned(value) ==
    [ kind |-> "return", cls |-> "", message |-> "", status |-> None,
      body |-> None, value |-> value ]

\* A ServiceNowError (or subclass) with its message, status_code, response_body.
Raised(cls, message, status, body) ==
    [ kind |-> "raise", cls |-> cls, message |-> message, status |-> status,
      body |-> body, value |-> <<>> ]

\* json.loads raised: json.JSONDecodeError is no ServiceNowError.
JsonDecodeRaised ==
    Raised("JSONDecodeError", "Expecting value", None, None)

(***************************************************************************)
(* _get_auth_header                                                        *)
(***************************************************************************)
\* Variants of the scheme precedence that the properties must tell from the
\* code's.
SelectSchemeOAuthFirst(cfg) ==
    IF Truthy(cfg.client_id) /\ Truthy(cfg.client_secret) THEN "oauth"
    ELSE IF Truthy(cfg.api_key) THEN "api_key"
    ELSE IF Truthy(cfg.username) /\ Truthy(cfg.password) THEN "basic"
    ELSE "none"

SelectSchemeBasicFirst(cfg) ==
    IF Truthy(cfg.api_key) THEN "api_key"
    ELSE IF Truthy(cfg.username) /\ Truthy(cfg.password) THEN "basic"
    ELSE IF Truthy(cfg.client_id) /\ Truthy(cfg.client_secret) THEN "oauth"
    ELSE "none"

\* The branch _get_auth_header takes.
SelectScheme(cfg) ==
    IF Truthy(cfg.api_key) THEN "api_key"
    ELSE IF Truthy(cfg.client_id) /\ Truthy(cfg.client_secret) THEN "oauth"
    ELSE IF Truthy(cfg.username) /\ Truthy(cfg.password) THEN "basic"
    ELSE "none"

ApiKeyHeader(cfg) == <<"Bearer", " ">> \o Val(cfg.api_key)

\* f"{self._token_type} {self._access_token}"
OAuthHeader(token_type, access_token) == token_type \o <<" ">> \o Val(access_token)

BasicHeader(cfg) ==
    <<"Basic", " ">>
    \o B64Encode(Cat3(Val(cfg.username), <<":">>, Val(cfg.password)))

\* A variant that requests a token for every request, cached or not.
NeedsTokenAlways(cfg, access_token) == SelectScheme(cfg) = "oauth"

\* if not self._access_token: self._obtain_oauth_token()
NeedsToken(cfg, access_token) ==
    SelectScheme(cfg) = "oauth" /\ ~Truthy(access_token)

(***************************************************************************)
(* _obtain_oauth_token: the effect of one answer of the token endpoint.    *)
(***************************************************************************)
\* A variant that ignores the token_type of the response.
TokenTypeAlwaysBearer(parsed) == <<"Bearer">>

TokenTypeOf(parsed) == Val(DictGet(parsed, "token_type", Some(<<"Bearer">>)))

AccessTokenOf(parsed) == DictGet(parsed, "access_token", None)

\* [token, type, raised]: the client's token state after the call and the
\* exception leaving _obtain_oauth_token (NoOutcome when it returns).
ObtainOAuthToken(resp, access_token, token_type) ==
    IF resp.kind = "ok" THEN
        LET parsed == JsonLoads(Val(resp.text))
        IN  IF ~parsed.ok
            THEN [ token |-> access_token, type |-> token_type,
                   raised |-> JsonDecodeRaised ]
            ELSE [ token |-> AccessTokenOf(parsed.value),
                   type |-> TokenTypeOf(parsed.value),
                   raised |-> IF Truthy(AccessTokenOf(parsed.value))
                              THEN NoOutcome
                              ELSE Raised("AuthenticationError",
                                          "OAuth response did not contain access_token",
                                          None, None) ]
    ELSE IF resp.kind = "http" THEN
        [ token |-> access_token, type |-> token_type,
          raised |-> Raised("AuthenticationError", "OAuth authentication failed",
                            Some(resp.code), resp.text) ]
    ELSE
        [ token |-> access_token, type |-> token_type,
          raised |-> Raised("AuthenticationError", "Failed to connect for OAuth",
                            None, None) ]

(***************************************************************************)
(* _make_request: the mapping of an HTTPError and the retry decision.      *)
(***************************************************************************)
\* Variants of the retry decision and of the retry's arguments that the
\* properties must tell from the code's.
ShouldRetryEvery401(code, access_token, _retry) ==
    code = 401 /\ Truthy(access_token)

ShouldRetryAnyScheme(code, access_token, _retry) ==
    code = 401 /\ ~_retry

RetryArgsFinalUrl(rq) ==
    [ method |-> rq.method, url |-> FinalUrl(rq.url, rq.params),
      data |-> rq.data, params |-> rq.params ]

\* if self._access_token and not _retry (inside e.code == 401)
ShouldRetry(code, access_token, _retry) ==
    code = 401 /\ Truthy(access_token) /\ ~_retry

\* self._access_token = None
ClearedToken == None

\* return self._make_request(method, url, data, params, _retry=True)
RetryArgs(rq) ==
    [ method |-> rq.method, url |-> rq.url, data |-> rq.data, params |-> rq.params ]

\* A variant that lets 403 fall through to the generic error.
ErrorClassWithout403(code) ==
    CASE code = 401 -> "AuthenticationError"
      [] code = 404 -> "NotFoundError"
      [] code = 429 -> "RateLimitError"
      [] code = 400 -> "ValidationError"
      [] OTHER -> "ServiceNowError"

ErrorClass(code) ==
    CASE code = 401 -> "AuthenticationError"
      [] code = 403 -> "AuthenticationError"
      [] code = 404 -> "NotFoundError"
      [] code = 429 -> "RateLimitError"
      [] code = 400 -> "ValidationError"
      [] OTHER -> "ServiceNowError"

ErrorMessage(code) ==
    CASE code = 401 -> "Authentication failed"
      [] code = 403 -> "Access forbidden - insufficient permissions"
      [] code = 404 -> "Resource not found"
      [] code = 429 -> "Rate limit exceeded"
      [] code = 400 -> "Invalid request"
      [] OTHER -> "API request failed"

\* The exception raised for an HTTPError that is not retried.
HttpErrorRaised(resp) ==
    Raised(ErrorClass(resp.code), ErrorMessage(resp.code), Some(resp.code), resp.text)

\* A variant that raises the OAuth connection error for the table request.
UrlErrorRaisedAsAuth ==
    Raised("AuthenticationError", "Failed to connect for OAuth", None, None)

UrlErrorRaised ==
    Raised("ServiceNowError", "Failed to connect to ServiceNow", None, None)

\* A variant that parses the body without testing it for emptiness.
SuccessOutcomeAlwaysParses(resp) ==
    IF JsonLoads(Val(resp.text)).ok THEN Returned(JsonLoads(Val(resp.text)).value)
    ELSE JsonDecodeRaised

\* The value returned for a successful response.
SuccessOutcome(resp) ==
    IF Val(resp.text) = <<>> THEN Returned(<<>>)
    ELSE IF JsonLoads(Val(resp.text)).ok THEN Returned(JsonLoads(Val(resp.text)).value)
    ELSE JsonDecodeRaised


(***************************************************************************)
(* The client: construction and facade calls.                              *)
(***************************************************************************)
Instance == <<"https://h">>

\* Configurations a client is constructed with (ServiceNowClient(config)).
ClientConfigs ==
    [ instance      : { Some(Instance) },
      username      : { None, Some(<<"u">>), Some(<<"a", ":">>) },
      password      : { None, Some(<<>>), Some(<<"p">>) },
      client_id     : { None, Some(<<"c">>) },
      client_secret : { None, Some(<<>>), Some(<<"s">>) },
      api_key       : { None, Some(<<>>), Some(<<"k">>) },
      timeout       : { None } ]

DigitChar(d) ==
    CASE d = 0 -> "0" [] d = 1 -> "1" [] d = 2 -> "2" [] d = 3 -> "3"
      [] d = 4 -> "4" [] d = 5 -> "5" [] d = 6 -> "6" [] d = 7 -> "7"
      [] d = 8 -> "8" [] d = 9 -> "9"

\* str(n) of a non-negative integer, as urlencode applies it to a value.
RECURSIVE StrOfInt(_)
StrOfInt(n) ==
    IF n < 10 THEN <<DigitChar(n)>>
    ELSE StrOfInt(n \div 10) \o <<DigitChar(n % 10)>>

\* The optional arguments of ServiceNowClient.get, all absent.
NoGetArgs ==
    [ sys_id |-> None, query |-> None, fields |-> None, limit |-> None,
      offset |-> None, order_by |-> None, display_value |-> None ]

\* A variant that tests every argument with "is not None".
GetParamsIsNotNone(a) ==
    (IF a.query # None THEN << <<"sysparm_query", Val(a.query)>> >> ELSE <<>>)
    \o (IF a.fields # None THEN << <<"sysparm_fields", Val(a.fields)>> >> ELSE <<>>)
    \o (IF a.limit # None THEN << <<"sysparm_limit", StrOfInt(Val(a.limit))>> >> ELSE <<>>)
    \o (IF a.offset # None THEN << <<"sysparm_offset", StrOfInt(Val(a.offset))>> >> ELSE <<>>)
    \o (IF a.order_by # None THEN << <<"sysparm_order_by", Val(a.order_by)>> >> ELSE <<>>)
    \o (IF a.display_value # None
        THEN << <<"sysparm_display_value", Val(a.display_value)>> >> ELSE <<>>)

\* The params dict get() fills: the string arguments are tested for
\* truthiness, limit and offset with "is not None".  The two integers are
\* stored as the text urlencode makes of them.
GetParams(a) ==
    (IF Truthy(a.query) THEN << <<"sysparm_query", Val(a.query)>> >> ELSE <<>>)
    \o (IF Truthy(a.fields) THEN << <<"sysparm_fields", Val(a.fields)>> >> ELSE <<>>)
    \o (IF a.limit # None THEN << <<"sysparm_limit", StrOfInt(Val(a.limit))>> >> ELSE <<>>)
    \o (IF a.offset # None THEN << <<"sysparm_offset", StrOfInt(Val(a.offset))>> >> ELSE <<>>)
    \o (IF Truthy(a.order_by) THEN << <<"sysparm_order_by", Val(a.order_by)>> >> ELSE <<>>)
    \o (IF Truthy(a.display_value)
        THEN << <<"sysparm_display_value", Val(a.display_value)>> >> ELSE <<>>)

\* The _make_request call of get(table, sys_id, query, fields, limit, offset,
\* order_by, display_value).
get(instance, table, a) ==
    [ method |-> "GET",
      url |-> BuildUrl(instance, table, a.sys_id),
      data |-> None,
      params |-> IF GetParams(a) # <<>> THEN Some(GetParams(a)) ELSE None ]

\* The _make_request call of delete(table, sys_id).
delete(instance, table, sys_id) ==
    [ method |-> "DELETE",
      url |-> BuildUrl(instance, table, Some(sys_id)),
      data |-> None,
      params |-> None ]

\* The _make_request calls of get(query, limit), post(data) and delete(sys_id).
MakeRequestArgs(instance) ==
    { get(instance, <<"incident">>,
          [ NoGetArgs EXCEPT !.query = Some(<<"s", "t", "a", "t", "e", "=", "1">>),
                             !.limit = Some(10) ]),
      [ method |-> "POST",
        url |-> BuildUrl(instance, <<"incident">>, None),
        data |-> Some(<< <<"short_description", <<"x">> >> >>),
        params |-> None ],
      delete(instance, <<"incident">>, <<"abc123">>) }

\* No facade call has ended on the client.
NoPast == [ tokenRequests |-> 0, unauthorized |-> FALSE ]

\* past, once the call whose urlopen calls are in calls has ended too.
PastWith(p, calls) ==
    [ tokenRequests |->
          p.tokenRequests
              + Cardinality({ i \in 1..Len(calls) : calls[i].endpoint = "token" }),
      unauthorized |->
          \/ p.unauthorized
          \/ \E i \in 1..Len(calls) :
                 calls[i].resp.kind = "http" /\ calls[i].resp.code = 401 ]

NoRequest == [ method |-> "", url |-> <<>>, data |-> None, params |-> None ]

DEFAULT_TIMEOUT == 30

\* A variant that tests the two timeouts for truthiness, so that 0 falls through.
ResolveTimeoutTruthy(timeout_arg, cfg) ==
    IF timeout_arg \notin { None, Some(0) } THEN Val(timeout_arg)
    ELSE IF cfg.timeout \notin { None, Some(0) } THEN Val(cfg.timeout)
    ELSE DEFAULT_TIMEOUT

\* self.timeout as __init__ sets it: the timeout argument, else the
\* configuration's timeout, else the default; "is not None" tests, so 0 counts.
ResolveTimeout(timeout_arg, cfg) ==
    IF timeout_arg # None THEN Val(timeout_arg)
    ELSE IF cfg.timeout # None THEN Val(cfg.timeout)
    ELSE DEFAULT_TIMEOUT

\* Configurations and timeout arguments of the constructions whose timeout
\* is followed: one configuration per authentication scheme.
TimeoutConfigs ==
    { [ NoConfig EXCEPT !.instance = Some(Instance), !.username = cred[1],
                        !.password = cred[2], !.client_id = cred[3],
                        !.client_secret = cred[4], !.api_key = cred[5],
                        !.timeout = t ] :
        cred \in { <<Some(<<"u">>), Some(<<"p">>), None, None, None>>,
                   <<None, None, Some(<<"c">>), Some(<<"s">>), None>>,
                   <<None, None, None, None, Some(<<"k">>)>> },
        t \in { None, Some(0), Some(5) } }

TimeoutArgs == { None, Some(0), Some(7) }

\* Self.timeout before __init__ has run.
NoTimeout == 0 - 1

\* ServiceNowClient(config, timeout) with a configuration given.
Construct ==
    /\ pc = "unbuilt"
    /\ timeout' = ResolveTimeout(timeoutArg, config)
    /\ accessToken' = None
    /\ tokenType' = <<"Bearer">>
    /\ pc' = "idle"
    /\ UNCHANGED << config, req, retry, authHeader, log, outcome, ncalls,
                    tokenAtStart, timeoutArg, getArgs, past >>
    /\ UNCHANGED cfgVars
    /\ UNCHANGED cliVars
    /\ UNCHANGED loaderVars

\* One urlopen call as the transport saw it, with what it answered.
TokenExchange(cfg, tmo, resp) ==
    [ endpoint |-> "token",
      method |-> "POST",
      url |-> TokenUrl(Val(cfg.instance)),
      body |-> Some(TokenForm(cfg)),
      accept |-> "application/json",
      content_type |-> "application/x-www-form-urlencoded",
      authorization |-> None,
      timeout |-> tmo,
      resp |-> resp ]

ApiExchange(rq, auth, tmo, resp) ==
    [ endpoint |-> "api",
      method |-> rq.method,
      url |-> FinalUrl(rq.url, rq.params),
      body |-> RequestBody(rq.data),
      accept |-> "application/json",
      content_type |-> "application/json",
      authorization |-> auth,
      timeout |-> tmo,
      resp |-> resp ]

\* A variant in which the retry flag is the client's: a facade verb does not
\* reset it.
StartCallKeepsRetry ==
    /\ pc = "idle"
    /\ ncalls < MaxCalls
    /\ \E rq \in MakeRequestArgs(Val(config.instance)) : req' = rq
    /\ authHeader' = None
    /\ log' = <<>>
    /\ outcome' = NoOutcome
    /\ ncalls' = ncalls + 1
    /\ tokenAtStart' = accessToken
    /\ past' = PastWith(past, log)
    /\ pc' = "auth"
    /\ UNCHANGED << config, accessToken, tokenType, timeoutArg, timeout, getArgs,
                    retry >>
    /\ UNCHANGED cfgVars
    /\ UNCHANGED cliVars
    /\ UNCHANGED loaderVars

\* A facade verb enters _make_request with _retry = False.
StartCall ==
    /\ pc = "idle"
    /\ ncalls < MaxCalls
    /\ \E rq \in MakeRequestArgs(Val(config.instance)) : req' = rq
    /\ retry' = FALSE
    /\ authHeader' = None
    /\ log' = <<>>
    /\ outcome' = NoOutcome
    /\ ncalls' = ncalls + 1
    /\ tokenAtStart' = accessToken
    /\ past' = PastWith(past, log)
    /\ pc' = "auth"
    /\ UNCHANGED << config, accessToken, tokenType, timeoutArg, timeout, getArgs >>
    /\ UNCHANGED cfgVars
    /\ UNCHANGED cliVars
    /\ UNCHANGED loaderVars

\* headers.update(self._get_auth_header()), with the token request it may make.
GetAuthHeader ==
    /\ pc = "auth"
    /\ UNCHANGED << config, req, retry, ncalls, tokenAtStart, timeoutArg, timeout,
                    getArgs, past >>
    /\ UNCHANGED cfgVars
    /\ UNCHANGED cliVars
    /\ UNCHANGED loaderVars
    /\ IF SelectScheme(config) = "api_key" THEN
            /\ authHeader' = Some(ApiKeyHeader(config))
            /\ pc' = "request"
            /\ UNCHANGED << accessToken, tokenType, log, outcome >>
       ELSE IF SelectScheme(config) = "oauth" THEN
            IF NeedsToken(config, accessToken) THEN
                \E resp \in TokenResponses :
                    LET got == ObtainOAuthToken(resp, accessToken, tokenType)
                    IN  /\ log' = Append(log, TokenExchange(config, timeout, resp))
                        /\ accessToken' = got.token
                        /\ tokenType' = got.type
                        /\ IF got.raised.kind = "raise"
                           THEN /\ outcome' = got.raised
                                /\ authHeader' = None
                                /\ pc' = "idle"
                           ELSE /\ authHeader' = Some(OAuthHeader(got.type, got.token))
                                /\ pc' = "request"
                                /\ UNCHANGED outcome
            ELSE
                /\ authHeader' = Some(OAuthHeader(tokenType, accessToken))
                /\ pc' = "request"
                /\ UNCHANGED << accessToken, tokenType, log, outcome >>
       ELSE IF SelectScheme(config) = "basic" THEN
            /\ authHeader' = Some(BasicHeader(config))
            /\ pc' = "request"
            /\ UNCHANGED << accessToken, tokenType, log, outcome >>
       ELSE
            /\ outcome' = Raised("AuthenticationError",
                                 "No valid authentication method available",
                                 None, None)
            /\ authHeader' = None
            /\ pc' = "idle"
            /\ UNCHANGED << accessToken, tokenType, log >>

\* urlopen(request) of the table-API request and the handling of its outcome.
SendRequest ==
    /\ pc = "request"
    /\ UNCHANGED << config, tokenType, authHeader, ncalls, tokenAtStart,
                    timeoutArg, timeout, getArgs, past >>
    /\ UNCHANGED cfgVars
    /\ UNCHANGED cliVars
    /\ UNCHANGED loaderVars
    /\ \E resp \in ApiResponses :
        /\ log' = Append(log, ApiExchange(req, authHeader, timeout, resp))
        /\ IF resp.kind = "ok" THEN
                /\ outcome' = SuccessOutcome(resp)
                /\ pc' = "idle"
                /\ UNCHANGED << accessToken, retry, req >>
           ELSE IF resp.kind = "http" THEN
                IF ShouldRetry(resp.code, accessToken, retry) THEN
                    /\ accessToken' = ClearedToken
                    /\ req' = RetryArgs(req)
                    /\ retry' = TRUE
                    /\ pc' = "auth"
                    /\ UNCHANGED outcome
                ELSE
                    /\ outcome' = HttpErrorRaised(resp)
                    /\ pc' = "idle"
                    /\ UNCHANGED << accessToken, retry, req >>
           ELSE
                /\ outcome' = UrlErrorRaised
                /\ pc' = "idle"
                /\ UNCHANGED << accessToken, retry, req >>

(***************************************************************************)
(* The collaborator scripts: read_json_input, dispatch_action, the         *)
(* handlers, output_json, output_error and main().                         *)
(***************************************************************************)
Scripts == { "incidents", "changes", "problems", "cmdb", "companies", "catalog" }

\* The branches of a script's dispatch_action, in the order of its if/elif chain.
Branches(s) ==
    CASE s = "incidents" -> <<"get", "get_by_number", "query">>
      [] s = "changes"   -> <<"get", "get_by_number", "query">>
      [] s = "problems"  -> <<"get", "get_by_number", "query">>
      [] s = "cmdb"      -> <<"get", "get_by_name", "query", "search",
                              "relationships", "by_ip", "by_serial">>
      [] s = "companies" -> <<"get", "get_by_name", "query", "search", "latest">>
      [] s = "catalog"   -> <<"get_category", "get_item", "categories", "items",
                              "search", "status", "query_requests">>

\* The list of actions as the two messages of a script's dispatch_action spell it.
ValidActionsText(s) ==
    CASE s = "incidents" -> "get, get_by_number, query"
      [] s = "changes"   -> "get, get_by_number, query"
      [] s = "problems"  -> "get, get_by_number, query"
      [] s = "cmdb"      -> "get, get_by_name, query, search, relationships, by_ip, by_serial"
      [] s = "companies" -> "get, get_by_name, query, search, latest"
      [] s = "catalog"   -> "get_category, get_item, categories, items, search, status, query_requests"

\* The parameters a handler requires: it raises when all of them are falsy.
RequiredParams(action) ==
    CASE action = "get"           -> <<"sys_id">>
      [] action = "get_category"  -> <<"sys_id">>
      [] action = "get_item"      -> <<"sys_id">>
      [] action = "relationships" -> <<"sys_id">>
      [] action = "get_by_number" -> <<"number">>
      [] action = "get_by_name"   -> <<"name">>
      [] action = "search"        -> <<"search_term">>
      [] action = "by_ip"         -> <<"ip_address">>
      [] action = "by_serial"     -> <<"serial_number">>
      [] action = "status"        -> <<"request_number", "request_sys_id">>
      [] OTHER                    -> <<>>

\* A variant whose message does not name the parameter.
RequiredMessageWithoutName(action) ==
    "a required parameter is missing for " \o action \o " action"

RequiredMessage(action) ==
    IF action = "status"
    THEN "Either request_number or request_sys_id is required for status action"
    ELSE RequiredParams(action)[1] \o " is required for " \o action \o " action"

\* A Python str of the model as one text.
RECURSIVE Text(_)
Text(s) == IF s = <<>> THEN "" ELSE s[1] \o Text(Tail(s))

IsBranch(s, action) == \E i \in 1..Len(Branches(s)) : Branches(s)[i] = action

\* The check at the head of every handler that has required parameters.
HandlerValidation(action, params) ==
    IF /\ RequiredParams(action) # <<>>
       /\ \A i \in 1..Len(RequiredParams(action)) :
              ~Truthy(DictGet(params, RequiredParams(action)[i], None))
    THEN Raised("ValidationError", RequiredMessage(action), None, None)
    ELSE NoOutcome

\* A variant that rejects an unrecognized action before the client is created.
dispatch_action_validates_first(s, params, cfg) ==
    LET action == DictGet(params, "action", None)
    IN  IF ~Truthy(action)
        THEN [ client |-> FALSE,
               raised |-> Raised("ValidationError",
                                 "action is required. Valid actions: "
                                     \o ValidActionsText(s), None, None) ]
        ELSE IF ~IsBranch(s, Text(Val(action)))
        THEN [ client |-> FALSE,
               raised |-> Raised("ValidationError",
                                 "Invalid action: " \o Text(Val(action))
                                     \o ". Valid actions: " \o ValidActionsText(s),
                                 None, None) ]
        ELSE IF HandlerValidation(Text(Val(action)), params).kind = "raise"
        THEN [ client |-> FALSE,
               raised |-> HandlerValidation(Text(Val(action)), params) ]
        ELSE IF cfg.raised # ""
        THEN [ client |-> FALSE,
               raised |-> Raised(cfg.raised, cfg.message, None, None) ]
        ELSE [ client |-> TRUE, raised |-> NoOutcome ]

\* dispatch_action(params) up to the handler's first client.get: what it
\* raised there (kind "none": nothing), and whether create_client() returned.
\* cfg is what get_config() gives create_client().
dispatch_action(s, params, cfg) ==
    LET action == DictGet(params, "action", None)
    IN  IF ~Truthy(action)
        THEN [ client |-> FALSE,
               raised |-> Raised("ValidationError",
                                 "action is required. Valid actions: "
                                     \o ValidActionsText(s), None, None) ]
        ELSE IF cfg.raised # ""
        THEN [ client |-> FALSE,
               raised |-> Raised(cfg.raised, cfg.message, None, None) ]
        ELSE IF ~IsBranch(s, Text(Val(action)))
        THEN [ client |-> TRUE,
               raised |-> Raised("ValidationError",
                                 "Invalid action: " \o Text(Val(action))
                                     \o ". Valid actions: " \o ValidActionsText(s),
                                 None, None) ]
        ELSE [ client |-> TRUE,
               raised |-> HandlerValidation(Text(Val(action)), params) ]

\* incidents.py
TABLE_NAME == <<"incident">>

DEFAULT_FIELDS ==
    <<"sys_id", "number", "short_description", "description", "state",
      "urgency", "impact", "priority", "assignment_group", "assigned_to",
      "caller_id", "category", "subcategory", "opened_at", "opened_by",
      "resolved_at", "resolved_by", "closed_at", "closed_by", "close_code",
      "close_notes", "active", "sys_created_on", "sys_updated_on">>

\* sep.join(parts) for a sequence of strs.
RECURSIVE Join(_, _)
Join(parts, sep) ==
    IF Len(parts) = 0 THEN <<>>
    ELSE IF Len(parts) = 1 THEN parts[1]
    ELSE parts[1] \o <<sep>> \o Join(Tail(parts), sep)

\* fields if fields is not None else ",".join(DEFAULT_FIELDS)
EffectiveFields(params) ==
    IF DictGet(params, "fields", None) # None
    THEN DictGet(params, "fields", None)
    ELSE Some(Join([ i \in 1..Len(DEFAULT_FIELDS) |-> <<DEFAULT_FIELDS[i]>> ], ","))

\* One "name=value" condition of query_incidents, when the value is given.
Condition(params, name) ==
    IF DictGet(params, name, None) # None
    THEN << <<name, "=">> \o Val(DictGet(params, name, None)) >>
    ELSE <<>>

\* A variant that puts the caller's raw query in front of the conditions.
QueryPartsRawQueryFirst(params) ==
    (IF Truthy(DictGet(params, "query", None))
     THEN << Val(DictGet(params, "query", None)) >>
     ELSE <<>>)
    \o Condition(params, "state")
    \o Condition(params, "urgency")
    \o Condition(params, "impact")
    \o Condition(params, "assignment_group")
    \o (IF DictGet(params, "active", None) # None
        THEN << <<"active", "=",
                  IF Val(DictGet(params, "active", None)) \in { PyBool(FALSE), <<>> }
                  THEN "false" ELSE "true">> >>
        ELSE <<>>)

\* query_parts of query_incidents; active is tested for truthiness when given.
QueryParts(params) ==
    Condition(params, "state")
    \o Condition(params, "urgency")
    \o Condition(params, "impact")
    \o Condition(params, "assignment_group")
    \o (IF DictGet(params, "active", None) # None
        THEN << <<"active", "=",
                  IF Val(DictGet(params, "active", None)) \in { PyBool(FALSE), <<>> }
                  THEN "false" ELSE "true">> >>
        ELSE <<>>)
    \o (IF Truthy(DictGet(params, "query", None))
        THEN << Val(DictGet(params, "query", None)) >>
        ELSE <<>>)

\* The arguments of the client.get call of an incidents handler.
HandlerGetArgs(action, params) ==
    CASE action = "get" ->
           [ NoGetArgs EXCEPT !.sys_id = DictGet(params, "sys_id", None),
                              !.fields = EffectiveFields(params),
                              !.display_value = DictGet(params, "display_value", None) ]
      [] action = "get_by_number" ->
           [ NoGetArgs EXCEPT !.query = Some(<<"number", "=">>
                                             \o Val(DictGet(params, "number", None))),
                              !.fields = EffectiveFields(params),
                              !.limit = Some(1),
                              !.display_value = DictGet(params, "display_value", None) ]
      [] action = "query" ->
           [ NoGetArgs EXCEPT !.query = IF QueryParts(params) # <<>>
                                        THEN Some(Join(QueryParts(params), "^"))
                                        ELSE None,
                              !.fields = EffectiveFields(params),
                              !.limit = DictGet(params, "limit", None),
                              !.offset = DictGet(params, "offset", None),
                              !.order_by = DictGet(params, "order_by", None),
                              !.display_value = DictGet(params, "display_value", None) ]

\* What an incidents handler makes of the dict client.get returned.
HandlerResult(action, params, value) ==
    LET result == Val(DictGet(value, "result", Some(<<>>)))
    IN  CASE action = "get" ->
               IF result = <<>>
               THEN Raised("NotFoundError",
                           "Incident with sys_id '"
                               \o Text(Val(DictGet(params, "sys_id", None)))
                               \o "' not found", None, None)
               ELSE Returned(result)
          [] action = "get_by_number" ->
               IF result = <<>>
               THEN Raised("NotFoundError",
                           "Incident with number '"
                               \o Text(Val(DictGet(params, "number", None)))
                               \o "' not found", None, None)
               ELSE Returned(result[1])
          [] action = "query" -> Returned(result)

\* The documents standard input may hold, as the dicts they parse to.
ActionOnly(a) == << <<"action", <<a>> >> >>

WithParam(a, p, v) == << <<"action", <<a>> >>, <<p, v>> >>

ParamDicts(s) ==
    { <<>>,
      << <<"action", <<>> >> >>,
      << <<"sys_id", <<"abc123">> >> >>,
      ActionOnly("bogus"),
      WithParam("delete", "sys_id", <<"abc123">>) }
    \cup { ActionOnly(Branches(s)[i]) :
             i \in { j \in 1..Len(Branches(s)) : RequiredParams(Branches(s)[j]) # <<>> } }
    \cup { WithParam(Branches(s)[i], RequiredParams(Branches(s)[i])[1], <<>>) :
             i \in { j \in 1..Len(Branches(s)) : RequiredParams(Branches(s)[j]) # <<>> } }
    \cup (IF s = "catalog"
          THEN { << <<"action", <<"status">> >>, <<"request_number", <<>> >>,
                    <<"request_sys_id", <<>> >> >> }
          ELSE {})
    \cup (IF s = "incidents"
          THEN { WithParam("get", "sys_id", <<"abc123">>),
                 WithParam("get_by_number", "number", <<"INC001">>),
                 ActionOnly("query"),
                 WithParam("query", "state", <<"1">>),
                 WithParam("query", "state", <<>>),
                 WithParam("query", "active", PyBool(FALSE)),
                 WithParam("query", "query", <<"priority", "=", "2">>),
                 WithParam("query", "query", <<>>),
                 WithParam("query", "state", <<"1">>) \o << <<"active", PyBool(TRUE)>> >>,
                 WithParam("query", "active", PyBool(TRUE)) \o << <<"state", <<"2">> >> >>,
                 WithParam("query", "query", <<"priority", "=", "2">>)
                     \o << <<"active", PyBool(FALSE)>>,
                           <<"assignment_group", <<"net">> >>,
                           <<"impact", <<"3">> >>,
                           <<"urgency", <<"2">> >>,
                           <<"state", <<"1">> >> >> }
          ELSE {})

AllParamDicts == UNION { ParamDicts(s) : s \in Scripts }

BadJson == <<"{bad">>

\* The texts standard input may hold.
StdinTexts(s) ==
    { <<>>, <<" ", "\n">>, <<"\t">>, BadJson }
    \cup { JsonDumps(d) : d \in ParamDicts(s) }
    \cup { <<" ">> \o JsonDumps(ActionOnly("bogus")) \o <<"\n">> }

Whitespace == { " ", "\n", "\t", "\r" }

RECURSIVE LStripWs(_)
LStripWs(s) ==
    IF Len(s) > 0 /\ s[1] \in Whitespace THEN LStripWs(Tail(s)) ELSE s

RECURSIVE RStripWs(_)
RStripWs(s) ==
    IF Len(s) > 0 /\ s[Len(s)] \in Whitespace
    THEN RStripWs(SubSeq(s, 1, Len(s) - 1))
    ELSE s

\* str.strip()
Strip(s) == RStripWs(LStripWs(s))

\* json.loads(input_data) over the documents of the value sets: white space
\* around the document is skipped, and a text is the serialisation of at
\* most one of the dicts.
InputJsonLoads(text) ==
    IF \E d \in AllParamDicts : JsonDumps(d) = Strip(text)
    THEN [ ok |-> TRUE,
           value |-> CHOOSE d \in AllParamDicts : JsonDumps(d) = Strip(text) ]
    ELSE [ ok |-> FALSE, value |-> <<>> ]

\* str(e) of the json.JSONDecodeError for a text json.loads rejects.
JsonErrorText(text) ==
    IF text = BadJson
    THEN "Expecting property name enclosed in double quotes: line 1 column 2 (char 1)"
    ELSE "Expecting value"

\* A variant that returns {} for the empty text only.
read_json_input_empty_only(text) ==
    IF text = <<>> THEN [ raised |-> NoOutcome, value |-> <<>> ]
    ELSE IF InputJsonLoads(text).ok
    THEN [ raised |-> NoOutcome, value |-> InputJsonLoads(text).value ]
    ELSE [ raised |-> Raised("ValidationError",
                             "Invalid JSON input: " \o JsonErrorText(text),
                             None, None),
           value |-> <<>> ]

\* read_json_input(): the value returned, or the ValidationError raised.
read_json_input(text) ==
    IF Strip(text) = <<>> THEN [ raised |-> NoOutcome, value |-> <<>> ]
    ELSE IF InputJsonLoads(text).ok
    THEN [ raised |-> NoOutcome, value |-> InputJsonLoads(text).value ]
    ELSE [ raised |-> Raised("ValidationError",
                             "Invalid JSON input: " \o JsonErrorText(text),
                             None, None),
           value |-> <<>> ]

IsServiceNowError(cls) ==
    cls \in { "ServiceNowError", "AuthenticationError", "ConfigurationError",
              "NotFoundError", "RateLimitError", "ValidationError" }

\* A variant that tests the response body with "is not None".
to_dict_body_is_not_none(e) ==
    [ error |-> e.message,
      status_code |-> IF e.status # None /\ Val(e.status) # 0 THEN e.status ELSE None,
      details |-> IF e.body # None
                  THEN IF JsonLoads(Val(e.body)).ok
                       THEN Some(JsonLoads(Val(e.body)).value)
                       ELSE Some(Val(e.body))
                  ELSE None ]

\* ServiceNowError.to_dict(): a key the dict does not have is None here.
to_dict(e) ==
    [ error |-> e.message,
      status_code |-> IF e.status # None /\ Val(e.status) # 0 THEN e.status ELSE None,
      details |-> IF Truthy(e.body)
                  THEN IF JsonLoads(Val(e.body)).ok
                       THEN Some(JsonLoads(Val(e.body)).value)
                       ELSE Some(Val(e.body))
                  ELSE None ]

\* error_data of output_error.
ErrorData(e) ==
    IF IsServiceNowError(e.cls) THEN to_dict(e)
    ELSE [ error |-> e.message, status_code |-> None, details |-> None ]

\* print(json.dumps(data, indent=2)): the text written, kept as the value it
\* serialises.
JsonLine(data) == [ kind |-> "json", data |-> data ]

\* The traceback the interpreter writes for an exception main() lets through.
TracebackLine(e) == [ kind |-> "traceback", data |-> ErrorData(e) ]

\* A variant of main() without its "except Exception" clause.
MainCatchesServiceNowErrorOnly(cls) == IsServiceNowError(cls)

\* main() catches ServiceNowError, and then Exception.
MainCatches(cls) ==
    IsServiceNowError(cls) \/ cls \in { "JSONDecodeError" }

\* The process ends on the exception e raised inside main()'s try block:
\* output_error(e), or the interpreter's traceback; both exit with status 1.
EndOnException(e) ==
    /\ caught' = e
    /\ stderr' = Append(stderr, IF MainCatches(e.cls) THEN JsonLine(ErrorData(e))
                                ELSE TracebackLine(e))
    /\ exitCode' = Some(1)
    /\ cliPc' = "exited"
    /\ UNCHANGED stdout

\* params = read_json_input()
ReadInput ==
    /\ cliPc = "start"
    /\ IF read_json_input(stdin).raised.kind = "raise"
       THEN /\ EndOnException(read_json_input(stdin).raised)
            /\ UNCHANGED cliParams
       ELSE /\ cliParams' = read_json_input(stdin).value
            /\ cliPc' = "dispatch"
            /\ UNCHANGED << caught, stdout, stderr, exitCode >>
    /\ UNCHANGED << script, stdin >>
    /\ UNCHANGED cfgVars
    /\ UNCHANGED clientVars
    /\ UNCHANGED loaderVars

\* dispatch_action(params) up to the handler's client.get, which enters
\* _make_request; create_client() builds the client from get_config().
Dispatch ==
    /\ cliPc = "dispatch"
    /\ LET cfg == get_config(environ, fileVars)
           d == dispatch_action(script, cliParams, cfg)
           action == Text(Val(DictGet(cliParams, "action", None)))
       IN  /\ IF Truthy(DictGet(cliParams, "action", None))
              THEN cfgResult' = cfg /\ cfgPc' = "done"
              ELSE UNCHANGED << cfgResult, cfgPc >>
           /\ IF d.client
              THEN /\ config' = cfg.config
                   /\ timeout' = ResolveTimeout(None, cfg.config)
                   /\ pc' = IF d.raised.kind = "raise" THEN "idle" ELSE "auth"
              ELSE UNCHANGED << config, timeout, pc >>
           /\ IF d.raised.kind = "raise"
              THEN /\ EndOnException(d.raised)
                   /\ UNCHANGED << req, getArgs, ncalls >>
              ELSE /\ getArgs' = HandlerGetArgs(action, cliParams)
                   /\ req' = get(Val(cfg.config.instance), TABLE_NAME,
                                 HandlerGetArgs(action, cliParams))
                   /\ ncalls' = ncalls + 1
                   /\ cliPc' = "handler"
                   /\ UNCHANGED << caught, stdout, stderr, exitCode >>
    /\ UNCHANGED << accessToken, tokenType, retry, authHeader, log, outcome,
                    tokenAtStart, timeoutArg, past >>
    /\ UNCHANGED << script, stdin, cliParams >>
    /\ UNCHANGED << fileVars, environ >>
    /\ UNCHANGED loaderVars

\* The handler's client.get has returned or raised: the handler returns its
\* result, which main() hands to output_json, or the exception ends main().
HandlerReturn ==
    /\ cliPc = "handler"
    /\ pc = "idle"
    /\ outcome.kind # "none"
    /\ LET action == Text(Val(DictGet(cliParams, "action", None)))
           r == IF outcome.kind = "raise" THEN outcome
                ELSE HandlerResult(action, cliParams, outcome.value)
       IN  IF r.kind = "raise"
           THEN EndOnException(r)
           ELSE /\ stdout' = Append(stdout, JsonLine(r.value))
                /\ exitCode' = Some(0)
                /\ cliPc' = "exited"
                /\ UNCHANGED << caught, stderr >>
    /\ UNCHANGED << script, stdin, cliParams >>
    /\ UNCHANGED cfgVars
    /\ UNCHANGED clientVars
    /\ UNCHANGED loaderVars

(***************************************************************************)
(* The env-file loader.  Texts are sequences of characters: "\\" is the    *)
(* backslash, "\n", "\t" and "\r" are the control characters, and NUL is   *)
(* chr(0), the placeholder _parse_quoted_value uses.                       *)
(***************************************************************************)
NUL == "<NUL>"

\* str.replace(old, new): every non-overlapping occurrence, from the left.
RECURSIVE Replace(_, _, _)
Replace(s, old, new) ==
    IF Len(s) < Len(old) THEN s
    ELSE IF SubSeq(s, 1, Len(old)) = old
    THEN new \o Replace(SubSeq(s, Len(old) + 1, Len(s)), old, new)
    ELSE <<s[1]>> \o Replace(Tail(s), old, new)

\* value.startswith(quote) and value.endswith(quote) and len(value) >= 2
IsQuoted(value, quote) ==
    /\ Len(value) >= 2
    /\ value[1] = quote
    /\ value[Len(value)] = quote

\* The chain of replace calls of a quoted branch: the escaped backslash is
\* parked as NUL, then the escaped quote, \n and \t are resolved, then NUL is
\* turned into a backslash.
Unescape(inner, quote) ==
    LET parked   == Replace(inner, <<"\\", "\\">>, <<NUL>>)
        unquoted == Replace(parked, <<"\\", quote>>, <<quote>>)
        newlines == Replace(unquoted, <<"\\", "n">>, <<"\n">>)
        tabs     == Replace(newlines, <<"\\", "t">>, <<"\t">>)
    IN  Replace(tabs, <<NUL>>, <<"\\">>)

\* _parse_quoted_value(value)
parse_quoted_value(value) ==
    LET stripped == Strip(value)
    IN  IF stripped = <<>> THEN stripped
        ELSE IF IsQuoted(stripped, "\"")
        THEN Unescape(SubSeq(stripped, 2, Len(stripped) - 1), "\"")
        ELSE IF IsQuoted(stripped, "'")
        THEN Unescape(SubSeq(stripped, 2, Len(stripped) - 1), "'")
        ELSE stripped

\* "=" in line
HasEquals(line) == \E i \in 1..Len(line) : line[i] = "="

\* A variant that splits at the last "=", as rpartition does.
LastEquals(line) ==
    CHOOSE i \in 1..Len(line) :
        line[i] = "=" /\ \A j \in (i + 1)..Len(line) : line[j] # "="

\* The position at which line.partition("=") splits: the first "=".
FirstEquals(line) ==
    CHOOSE i \in 1..Len(line) :
        line[i] = "=" /\ \A j \in 1..(i - 1) : line[j] # "="

\* env_vars[key] = value: a key already in the dict keeps its place.
DictSet(d, key, value) ==
    IF \E i \in 1..Len(d) : d[i][1] = key
    THEN [ i \in 1..Len(d) |-> IF d[i][1] = key THEN <<key, value>> ELSE d[i] ]
    ELSE Append(d, <<key, value>>)

\* The loop over the lines of the file, env_vars being the dict built so far.
RECURSIVE LoadLines(_, _)
LoadLines(lines, d) ==
    IF lines = <<>> THEN d
    ELSE LET line == Strip(lines[1])
         IN  IF line = <<>> \/ line[1] = "#"
             THEN LoadLines(Tail(lines), d)
             ELSE IF HasEquals(line)
             THEN LET at    == FirstEquals(line)
                      key   == Strip(SubSeq(line, 1, at - 1))
                      value == parse_quoted_value(SubSeq(line, at + 1, Len(line)))
                  IN  LoadLines(Tail(lines), DictSet(d, key, value))
             ELSE LoadLines(Tail(lines), d)

\* load_env_file(): file is the first candidate path that exists, as its
\* lines, or None when no candidate exists.
load_env_file(file) ==
    IF file = None THEN <<>> ELSE LoadLines(Val(file), <<>>)

ParseQuotedValue ==
    /\ loadPc = "value"
    /\ parsedValue' = parse_quoted_value(rawValue)
    /\ loadPc' = "done"
    /\ UNCHANGED << rawValue, envFile, env_vars >>
    /\ UNCHANGED cfgVars
    /\ UNCHANGED clientVars
    /\ UNCHANGED cliVars

LoadEnvFile ==
    /\ loadPc = "file"
    /\ env_vars' = load_env_file(envFile)
    /\ loadPc' = "done"
    /\ UNCHANGED << rawValue, parsedValue, envFile >>
    /\ UNCHANGED cfgVars
    /\ UNCHANGED clientVars
    /\ UNCHANGED cliVars

(***************************************************************************)
(* Specifications.                                                         *)
(***************************************************************************)
\* The env-file loader is not running.
NoLoaderRun ==
    /\ rawValue = <<>>
    /\ parsedValue = <<>>
    /\ envFile = None
    /\ env_vars = <<>>
    /\ loadPc = "unused"

\* No collaborator script is running.
NoCliRun ==
    /\ script = ""
    /\ stdin = <<>>
    /\ cliPc = "unused"
    /\ cliParams = <<>>
    /\ caught = NoOutcome
    /\ stdout = <<>>
    /\ stderr = <<>>
    /\ exitCode = None

\* The client right after ServiceNowClient(config).
Init ==
    /\ fileVars = NoConfig
    /\ environ = NoConfig
    /\ cfgPc = "unused"
    /\ cfgResult = NotRun
    /\ config \in ClientConfigs
    /\ accessToken = None
    /\ tokenType = <<"Bearer">>
    /\ pc = "idle"
    /\ req = NoRequest
    /\ retry = FALSE
    /\ authHeader = None
    /\ log = <<>>
    /\ outcome = NoOutcome
    /\ ncalls = 0
    /\ tokenAtStart = None
    /\ past = NoPast
    /\ timeoutArg = None
    /\ timeout = ResolveTimeout(timeoutArg, config)
    /\ getArgs = NoGetArgs
    /\ NoCliRun
    /\ NoLoaderRun

Next == StartCall \/ GetAuthHeader \/ SendRequest

Spec == Init /\ [][Next]_vars


\* get_config() on every file and environment of the value sets.
ConfigInit ==
    /\ fileVars \in [ instance : FileValues.instance, username : FileValues.username,
                      password : FileValues.password, client_id : FileValues.client_id,
                      client_secret : FileValues.client_secret,
                      api_key : FileValues.api_key, timeout : FileValues.timeout ]
    /\ environ \in [ instance : EnvValues.instance, username : EnvValues.username,
                     password : EnvValues.password, client_id : EnvValues.client_id,
                     client_secret : EnvValues.client_secret,
                     api_key : EnvValues.api_key, timeout : EnvValues.timeout ]
    /\ cfgPc = "start"
    /\ cfgResult = NotRun
    /\ config = NoConfig
    /\ accessToken = None
    /\ tokenType = <<"Bearer">>
    /\ pc = "unbuilt"
    /\ req = NoRequest
    /\ retry = FALSE
    /\ authHeader = None
    /\ log = <<>>
    /\ outcome = NoOutcome
    /\ ncalls = 0
    /\ tokenAtStart = None
    /\ past = NoPast
    /\ timeoutArg = None
    /\ timeout = NoTimeout
    /\ getArgs = NoGetArgs
    /\ NoCliRun
    /\ NoLoaderRun

ConfigNext == GetConfig

ConfigSpec == ConfigInit /\ [][ConfigNext]_vars

\* ServiceNowClient(config, timeout) over the timeouts of the two sources,
\* followed by facade calls.
TimeoutInit ==
    /\ fileVars = NoConfig
    /\ environ = NoConfig
    /\ cfgPc = "unused"
    /\ cfgResult = NotRun
    /\ config \in TimeoutConfigs
    /\ timeoutArg \in TimeoutArgs
    /\ timeout = NoTimeout
    /\ accessToken = None
    /\ tokenType = <<"Bearer">>
    /\ pc = "unbuilt"
    /\ req = NoRequest
    /\ retry = FALSE
    /\ authHeader = None
    /\ log = <<>>
    /\ outcome = NoOutcome
    /\ ncalls = 0
    /\ tokenAtStart = None
    /\ past = NoPast
    /\ getArgs = NoGetArgs
    /\ NoCliRun
    /\ NoLoaderRun

TimeoutNext == Construct \/ StartCall \/ GetAuthHeader \/ SendRequest

TimeoutSpec == TimeoutInit /\ [][TimeoutNext]_vars

\* Values of the optional arguments of get(): absent, empty or zero, and a
\* value.
GetArgValues ==
    [ sys_id        : { None },
      query         : { None, Some(<<>>), Some(<<"s", "t", "a", "t", "e", "=", "1">>) },
      fields        : { None, Some(<<>>), Some(<<"number">>) },
      limit         : { None, Some(0), Some(10) },
      offset        : { None, Some(0), Some(5) },
      order_by      : { None, Some(<<>>), Some(<<"number">>) },
      display_value : { None, Some(<<>>), Some(<<"true">>) } ]

\* client.get("incident", ...) enters _make_request with _retry = False.
StartGet ==
    /\ pc = "idle"
    /\ ncalls < 1
    /\ req' = get(Val(config.instance), <<"incident">>, getArgs)
    /\ retry' = FALSE
    /\ authHeader' = None
    /\ log' = <<>>
    /\ outcome' = NoOutcome
    /\ ncalls' = ncalls + 1
    /\ tokenAtStart' = accessToken
    /\ past' = PastWith(past, log)
    /\ pc' = "auth"
    /\ UNCHANGED << config, accessToken, tokenType, timeoutArg, timeout, getArgs >>
    /\ UNCHANGED cfgVars
    /\ UNCHANGED cliVars
    /\ UNCHANGED loaderVars

\* One get() call on an api-key client, over the values of its arguments.
GetInit ==
    /\ fileVars = NoConfig
    /\ environ = NoConfig
    /\ cfgPc = "unused"
    /\ cfgResult = NotRun
    /\ config = [ NoConfig EXCEPT !.instance = Some(Instance),
                                  !.api_key = Some(<<"k">>) ]
    /\ timeoutArg = None
    /\ timeout = ResolveTimeout(timeoutArg, config)
    /\ getArgs \in GetArgValues
    /\ accessToken = None
    /\ tokenType = <<"Bearer">>
    /\ pc = "idle"
    /\ req = NoRequest
    /\ retry = FALSE
    /\ authHeader = None
    /\ log = <<>>
    /\ outcome = NoOutcome
    /\ ncalls = 0
    /\ tokenAtStart = None
    /\ past = NoPast
    /\ NoCliRun
    /\ NoLoaderRun

GetNext == StartGet \/ GetAuthHeader \/ SendRequest

GetSpec == GetInit /\ [][GetNext]_vars

\* The file and environment a collaborator script runs with: nothing
\* configured, or one of the three authentication schemes.
CliEnvironments ==
    { NoConfig,
      [ NoConfig EXCEPT !.instance = Some(Instance), !.api_key = Some(<<"k">>) ],
      [ NoConfig EXCEPT !.instance = Some(Instance), !.client_id = Some(<<"c">>),
                        !.client_secret = Some(<<"s">>) ],
      [ NoConfig EXCEPT !.instance = Some(Instance), !.username = Some(<<"u">>),
                        !.password = Some(<<"p">>) ] }

\* A client built by create_client() from one of the complete environments.
FairInit ==
    /\ fileVars = NoConfig
    /\ environ = NoConfig
    /\ cfgPc = "unused"
    /\ cfgResult = NotRun
    /\ config \in CliEnvironments \ { NoConfig }
    /\ accessToken = None
    /\ tokenType = <<"Bearer">>
    /\ pc = "idle"
    /\ req = NoRequest
    /\ retry = FALSE
    /\ authHeader = None
    /\ log = <<>>
    /\ outcome = NoOutcome
    /\ ncalls = 0
    /\ tokenAtStart = None
    /\ past = NoPast
    /\ timeoutArg = None
    /\ timeout = ResolveTimeout(timeoutArg, config)
    /\ getArgs = NoGetArgs
    /\ NoCliRun
    /\ NoLoaderRun

\* A facade call, once entered, runs on: urlopen returns a response or raises
\* within the timeout.  Whether the caller makes another call is left open.
FairSpec == FairInit /\ [][Next]_vars /\ WF_vars(GetAuthHeader \/ SendRequest)

\* One run of a collaborator script's main().
CliInit ==
    /\ script \in Scripts
    /\ stdin \in StdinTexts(script)
    /\ cliPc = "start"
    /\ cliParams = <<>>
    /\ caught = NoOutcome
    /\ stdout = <<>>
    /\ stderr = <<>>
    /\ exitCode = None
    /\ fileVars = NoConfig
    /\ environ \in CliEnvironments
    /\ cfgPc = "start"
    /\ cfgResult = NotRun
    /\ config = NoConfig
    /\ timeoutArg = None
    /\ timeout = NoTimeout
    /\ getArgs = NoGetArgs
    /\ accessToken = None
    /\ tokenType = <<"Bearer">>
    /\ pc = "unbuilt"
    /\ req = NoRequest
    /\ retry = FALSE
    /\ authHeader = None
    /\ log = <<>>
    /\ outcome = NoOutcome
    /\ ncalls = 0
    /\ tokenAtStart = None
    /\ past = NoPast
    /\ NoLoaderRun

CliNext == ReadInput \/ Dispatch \/ GetAuthHeader \/ SendRequest \/ HandlerReturn

\* main() runs to its end: no step of it waits for anything but the
\* transport's answer, which always comes (a response or a URLError).
CliSpec == CliInit /\ [][CliNext]_vars /\ WF_vars(CliNext)

\* Every text of at most n characters drawn from chars.
RECURSIVE Texts(_, _)
Texts(chars, n) ==
    IF n = 0 THEN { <<>> }
    ELSE LET shorter == Texts(chars, n - 1)
         IN  shorter \cup { Append(t, c) : t \in { x \in shorter : Len(x) = n - 1 },
                                           c \in chars }

MaxValueLen == 5

ValueChars == { "\"", "'", "\\", "n", "t", "r", " " }

\* The client and the collaborators are not running.
NoClientRun ==
    /\ fileVars = NoConfig
    /\ environ = NoConfig
    /\ cfgPc = "unused"
    /\ cfgResult = NotRun
    /\ config = NoConfig
    /\ accessToken = None
    /\ tokenType = <<"Bearer">>
    /\ pc = "unbuilt"
    /\ req = NoRequest
    /\ retry = FALSE
    /\ authHeader = None
    /\ log = <<>>
    /\ outcome = NoOutcome
    /\ ncalls = 0
    /\ tokenAtStart = None
    /\ past = NoPast
    /\ timeoutArg = None
    /\ timeout = NoTimeout
    /\ getArgs = NoGetArgs
    /\ NoCliRun

\* _parse_quoted_value on every text of the value characters.
ParseInit ==
    /\ rawValue \in Texts(ValueChars, MaxValueLen)
    /\ parsedValue = <<>>
    /\ envFile = None
    /\ env_vars = <<>>
    /\ loadPc = "value"
    /\ NoClientRun

ParseNext == ParseQuotedValue

ParseSpec == ParseInit /\ [][ParseNext]_vars

MaxLineLen == 4

LineChars == { "A", "=", "#", " ", "'" }

\* Lines that follow the first line of a two-line file.
FollowingLines ==
    { <<"A", "=", "#">>, <<"#", "A">>, <<"A">>, <<" ", "A", " ", "=", " ">>,
      <<"=", "A">>, <<"'", "=", "A">>, <<"A", "=", "A", "=", "A", " ", "#", "A">> }

EnvFiles ==
    { None, Some(<<>>) }
    \cup { Some(<<first>>) : first \in Texts(LineChars, MaxLineLen) }
    \cup { Some(<<first, second>>) : first \in Texts(LineChars, MaxLineLen),
                                    second \in FollowingLines }

\* load_env_file on every file of EnvFiles.
LoadInit ==
    /\ rawValue = <<>>
    /\ parsedValue = <<>>
    /\ envFile \in EnvFiles
    /\ env_vars = <<>>
    /\ loadPc = "file"
    /\ NoClientRun

LoadNext == LoadEnvFile

LoadSpec == LoadInit /\ [][LoadNext]_vars



(***************************************************************************)
(* Vocabulary of the properties.                                           *)
(***************************************************************************)
\* The running facade call has returned or raised.
Done == pc = "idle" /\ outcome.kind # "none"

IsApi(e) == e.endpoint = "api"

\* The table-API requests of the running facade call, in order.
ApiLog == SelectSeq(log, IsApi)

Endpoints == [ i \in 1..Len(log) |-> log[i].endpoint ]

Is401(e) == e.resp.kind = "http" /\ e.resp.code = 401

\* The configuration selects OAuth, stated on the credentials themselves.
OAuthSelected ==
    /\ config.api_key \in { None, Some(<<>>) }
    /\ config.client_id \notin { None, Some(<<>>) }
    /\ config.client_secret \notin { None, Some(<<>>) }

\* A token response that grants a token, and the header the grant stands for.
GrantTexts == { TokenJson1, TokenJson2, TokenJson3 }

TokenGranted(e) ==
    e.endpoint = "token" /\ e.resp.kind = "ok" /\ Val(e.resp.text) \in GrantTexts

GrantedToken(text) ==
    CASE text = TokenJson1 -> <<"t1">>
      [] text = TokenJson2 -> <<"t2">>
      [] text = TokenJson3 -> <<"t2">>

GrantedHeader(text) ==
    CASE text = TokenJson1 -> <<"Bearer", " ", "t1">>
      [] text = TokenJson2 -> <<"Bearer", " ", "t2">>
      [] text = TokenJson3 -> <<"Custom", " ", "t2">>

\* The first table-API request of the call is in the log at position i.
FirstApiAt(i) ==
    /\ i \in 1..Len(log)
    /\ IsApi(log[i])
    /\ \A j \in 1..(i - 1) : ~IsApi(log[j])

AuthError401 ==
    /\ outcome.kind = "raise"
    /\ outcome.cls = "AuthenticationError"
    /\ outcome.status = Some(401)

(***************************************************************************)
(* C1 (as stated): under OAuth a 401 on a table-API request makes the      *)
(* client clear the token, fetch a new one and retry exactly once; when    *)
(* the retry is a 401 too the call raises AuthenticationError (401) after  *)
(* exactly the four HTTP calls token, API, token, API.                     *)
(***************************************************************************)
C1_AsStated ==
    (Done /\ OAuthSelected) =>
        /\ (Len(ApiLog) >= 1 /\ Is401(ApiLog[1])) => Len(ApiLog) = 2
        /\ (Len(ApiLog) = 2 /\ Is401(ApiLog[2])) =>
              /\ AuthError401
              /\ Endpoints = <<"token", "api", "token", "api">>

(***************************************************************************)
(* C1 (amended): under OAuth a 401 on the first table-API request of a     *)
(* facade call clears the cached token and is followed by a token request; *)
(* when that token request grants a token the request is retried, exactly  *)
(* once; when the retry is a 401 too the call raises AuthenticationError   *)
(* (401) and its HTTP calls were token, API, token, API when no token was  *)
(* cached as the call began, and API, token, API when one was.             *)
(***************************************************************************)
C1_OAuth401RetriesOnce ==
    OAuthSelected =>
        /\ Len(ApiLog) <= 2
        /\ \A i \in 1..Len(log) :
              (FirstApiAt(i) /\ Is401(log[i])) =>
                  /\ retry
                  /\ i = Len(log) => (pc = "auth" /\ accessToken = None)
                  /\ i < Len(log) => log[i + 1].endpoint = "token"
                  /\ (i < Len(log) /\ TokenGranted(log[i + 1])) =>
                        IF i + 1 = Len(log)
                        THEN pc = "request"
                        ELSE Len(log) = i + 2 /\ IsApi(log[i + 2])
        /\ (Done /\ Len(ApiLog) = 2 /\ Is401(ApiLog[2])) =>
              /\ AuthError401
              /\ Endpoints = IF Truthy(tokenAtStart)
                             THEN <<"api", "token", "api">>
                             ELSE <<"token", "api", "token", "api">>

\* A later call on a client that holds a token: two 401 in three HTTP calls.
C1_Witness ==
    /\ Done
    /\ OAuthSelected
    /\ ncalls = 2
    /\ Endpoints = <<"api", "token", "api">>
    /\ Is401(ApiLog[2])
    /\ AuthError401

(***************************************************************************)
(* C2 (as stated): a facade call re-issues its table-API request if and    *)
(* only if the failed attempt returned 401, the client authenticates with  *)
(* OAuth and it is the first attempt; every other failure is raised after  *)
(* exactly one table-API request, and a 401 under API-key or Basic auth    *)
(* after one HTTP call in total.                                           *)
(***************************************************************************)
C2_AsStated ==
    (Done /\ Len(ApiLog) >= 1) =>
        /\ Len(ApiLog) <= 2
        /\ Len(ApiLog) = 2 <=> (Is401(ApiLog[1]) /\ OAuthSelected)
        /\ (ApiLog[1].resp.kind # "ok" /\ ~(Is401(ApiLog[1]) /\ OAuthSelected)) =>
              (Len(ApiLog) = 1 /\ outcome.kind = "raise")
        /\ (Is401(ApiLog[1]) /\ ~OAuthSelected) => Len(log) = 1

\* The 401 of the first attempt was followed by a token request that granted one.
TokenRefreshed ==
    \E i \in 1..(Len(log) - 1) : IsApi(log[i]) /\ TokenGranted(log[i + 1])

(***************************************************************************)
(* C2 (amended): a facade call re-issues its table-API request if and only *)
(* if the failed attempt returned 401, the client authenticates with       *)
(* OAuth, it is the first attempt and the token request that follows the   *)
(* 401 grants a token; every other failure is raised after exactly one     *)
(* table-API request, and a 401 under API-key or Basic auth after one HTTP *)
(* call in total.                                                          *)
(***************************************************************************)
C2_ReissueOnlyOnFirstOAuth401 ==
    (Done /\ Len(ApiLog) >= 1) =>
        /\ Len(ApiLog) <= 2
        /\ Len(ApiLog) = 2 <=>
              (Is401(ApiLog[1]) /\ OAuthSelected /\ TokenRefreshed)
        /\ (ApiLog[1].resp.kind # "ok" /\ ~(Is401(ApiLog[1]) /\ OAuthSelected)) =>
              (Len(ApiLog) = 1 /\ outcome.kind = "raise")
        /\ (Is401(ApiLog[1]) /\ ~OAuthSelected) => Len(log) = 1

\* A first-attempt 401 under OAuth whose token refresh failed: no second request.
C2_Witness ==
    /\ Done
    /\ OAuthSelected
    /\ Len(ApiLog) = 1
    /\ Is401(ApiLog[1])
    /\ log[Len(log)].endpoint = "token"
    /\ outcome.kind = "raise"

(***************************************************************************)
(* C3: the retry after an OAuth 401 is sent with the method, URL (query    *)
(* parameters included) and body of the first attempt; only the            *)
(* Authorization header differs: it is built from the token the token      *)
(* request just before the retry granted, and after the call that token is *)
(* the client's cached token.                                              *)
(***************************************************************************)
C3_RetryRepeatsRequestWithNewToken ==
    \A i, j \in 1..Len(log) :
        (i < j /\ IsApi(log[i]) /\ IsApi(log[j])) =>
            /\ log[j].method = log[i].method
            /\ log[j].url = log[i].url
            /\ log[j].body = log[i].body
            /\ log[j].accept = log[i].accept
            /\ log[j].content_type = log[i].content_type
            /\ TokenGranted(log[j - 1])
            /\ log[j].authorization = Some(GrantedHeader(Val(log[j - 1].resp.text)))
            /\ Done => accessToken = Some(GrantedToken(Val(log[j - 1].resp.text)))

\* A GET with query parameters, retried with a different token, that succeeded.
C3_Witness ==
    /\ Done
    /\ Len(ApiLog) = 2
    /\ ApiLog[1].method = "GET"
    /\ req.params # None
    /\ ApiLog[2].authorization # ApiLog[1].authorization
    /\ outcome.kind = "return"


(***************************************************************************)
(* C4: with a non-empty api_key every Authorization header is exactly      *)
(* "Bearer {api_key}", whatever other credentials are configured; no       *)
(* request goes to the token endpoint, the cached OAuth token stays unset, *)
(* and a second call gets the same header.                                 *)
(***************************************************************************)
ApiKeySet == config.api_key \notin { None, Some(<<>>) }

OAuthPairSet ==
    config.client_id \notin { None, Some(<<>>) }
    /\ config.client_secret \notin { None, Some(<<>>) }

BasicPairSet ==
    config.username \notin { None, Some(<<>>) }
    /\ config.password \notin { None, Some(<<>>) }

C4_ApiKeyAlwaysBearer ==
    ApiKeySet =>
        /\ accessToken = None
        /\ \A i \in 1..Len(log) :
              /\ log[i].endpoint = "api"
              /\ log[i].authorization = Some(<<"Bearer", " ">> \o Val(config.api_key))
        /\ pc = "request" =>
              authHeader = Some(<<"Bearer", " ">> \o Val(config.api_key))
        /\ (pc = "idle" /\ ncalls > 0) => Len(log) = 1

\* The second call of a client that has all three credential sets.
C4_Witness ==
    /\ ApiKeySet
    /\ OAuthPairSet
    /\ BasicPairSet
    /\ ncalls = 2
    /\ Done
    /\ Len(log) = 1
    /\ log[1].authorization = Some(<<"Bearer", " ", "k">>)

(***************************************************************************)
(* C5: without an api_key the header is the OAuth one when client_id and   *)
(* client_secret are both present (username and password present or not),  *)
(* else "Basic " + base64("username:password") when both of these are      *)
(* present, else the call fails with AuthenticationError before any HTTP   *)
(* call; one scheme only is used by a client.                              *)
(***************************************************************************)
\* base64.b64encode(b"u:p") and base64.b64encode(b"a::p").
KnownBasic(username, password) ==
    CASE username = <<"u">> /\ password = <<"p">> -> <<"d", "T", "p", "w">>
      [] username = <<"a", ":">> /\ password = <<"p">> ->
           <<"Y", "T", "o", "6", "c", "A", "=", "=">>

GrantedHeaders == { Some(GrantedHeader(t)) : t \in GrantTexts }

C5_SchemeWithoutApiKey ==
    ~ApiKeySet =>
        /\ OAuthPairSet =>
              /\ pc = "request" =>
                    /\ accessToken # None
                    /\ authHeader = Some(tokenType \o <<" ">> \o Val(accessToken))
              /\ \A i \in 1..Len(log) :
                    IsApi(log[i]) => log[i].authorization \in GrantedHeaders
        /\ (~OAuthPairSet /\ BasicPairSet) =>
              LET basic == Some(<<"Basic", " ">>
                                \o KnownBasic(Val(config.username), Val(config.password)))
              IN  /\ accessToken = None
                  /\ pc = "request" => authHeader = basic
                  /\ \A i \in 1..Len(log) :
                        IsApi(log[i]) /\ log[i].authorization = basic
        /\ (~OAuthPairSet /\ ~BasicPairSet) =>
              /\ log = <<>>
              /\ pc # "request"
              /\ (pc = "idle" /\ ncalls > 0) =>
                    /\ outcome.kind = "raise"
                    /\ outcome.cls = "AuthenticationError"
                    /\ outcome.message = "No valid authentication method available"

\* OAuth chosen although username and password are configured as well.
C5_Witness ==
    /\ ~ApiKeySet
    /\ OAuthPairSet
    /\ BasicPairSet
    /\ Len(log) = 2
    /\ log[1].endpoint = "token"
    /\ log[2].authorization = Some(<<"Custom", " ", "t2">>)

(***************************************************************************)
(* C6: an HTTP error answer to a table-API request that ends the call is   *)
(* raised as the error kind of its status (401, 403 AuthenticationError;   *)
(* 404 NotFoundError; 429 RateLimitError; 400 ValidationError; any other   *)
(* ServiceNowError), carrying that response's status code and its raw body *)
(* text, JSON or not.                                                      *)
(***************************************************************************)
KindOfStatus(code) ==
    IF code \in { 401, 403 } THEN "AuthenticationError"
    ELSE IF code = 404 THEN "NotFoundError"
    ELSE IF code = 429 THEN "RateLimitError"
    ELSE IF code = 400 THEN "ValidationError"
    ELSE "ServiceNowError"

LastExchange == log[Len(log)]

C6_HttpErrorMapping ==
    (Done /\ Len(log) > 0 /\ IsApi(LastExchange) /\ LastExchange.resp.kind = "http") =>
        /\ outcome.kind = "raise"
        /\ outcome.cls = KindOfStatus(LastExchange.resp.code)
        /\ outcome.status = Some(LastExchange.resp.code)
        /\ outcome.body = LastExchange.resp.text

\* A 503 with an HTML body, raised as the generic error with code and body.
C6_Witness ==
    /\ Done
    /\ Len(log) > 0
    /\ IsApi(LastExchange)
    /\ LastExchange.resp = HttpErr(503, Some(HtmlText))
    /\ outcome.cls = "ServiceNowError"
    /\ outcome.body = Some(HtmlText)

(***************************************************************************)
(* C7: a transport failure of a table-API request ends the call at once    *)
(* with the generic ServiceNowError "Failed to connect to ServiceNow", on  *)
(* the first attempt and on the retry after an OAuth 401 alike.            *)
(***************************************************************************)
C7_TransportFailureIsFinal ==
    \A i \in 1..Len(log) :
        (IsApi(log[i]) /\ log[i].resp.kind = "url") =>
            /\ i = Len(log)
            /\ pc = "idle"
            /\ outcome.kind = "raise"
            /\ outcome.cls = "ServiceNowError"
            /\ outcome.message = "Failed to connect to ServiceNow"
            /\ outcome.status = None
            /\ outcome.body = None

\* The transport fails on the retry that follows an OAuth 401.
C7_Witness ==
    /\ Done
    /\ retry
    /\ Len(ApiLog) = 2
    /\ Is401(ApiLog[1])
    /\ ApiLog[2].resp.kind = "url"
    /\ outcome.cls = "ServiceNowError"

(***************************************************************************)
(* C8: a token request that ends the call (transport failure, HTTP         *)
(* failure, or an answer without access_token) raises AuthenticationError, *)
(* which carries the status and raw body of an HTTP failure.               *)
(***************************************************************************)
C8_TokenFailureIsAuthenticationError ==
    (Done /\ Len(log) > 0 /\ LastExchange.endpoint = "token") =>
        /\ outcome.kind = "raise"
        /\ outcome.cls = "AuthenticationError"
        /\ LastExchange.resp.kind = "http" =>
              /\ outcome.status = Some(LastExchange.resp.code)
              /\ outcome.body = LastExchange.resp.text

(***************************************************************************)
(* C9: after a token request granted a token the client holds that         *)
(* access_token and the response's token_type ("Bearer" when the response  *)
(* has none), and the table-API request that follows carries exactly       *)
(* "{token_type} {access_token}" of those cached values.                   *)
(***************************************************************************)
GrantedType(text) ==
    CASE text = TokenJson1 -> <<"Bearer">>
      [] text = TokenJson2 -> <<"Bearer">>
      [] text = TokenJson3 -> <<"Custom">>

C9_TokenAndTypeCachedAndUsed ==
    /\ \A i \in 1..Len(log) :
          TokenGranted(log[i]) =>
              LET text == Val(log[i].resp.text)
              IN  /\ i = Len(log) =>
                        /\ pc = "request"
                        /\ accessToken = Some(GrantedToken(text))
                        /\ tokenType = GrantedType(text)
                        /\ authHeader = Some(GrantedType(text) \o <<" ">>
                                             \o GrantedToken(text))
                  /\ i < Len(log) =>
                        /\ IsApi(log[i + 1])
                        /\ log[i + 1].authorization =
                              Some(GrantedType(text) \o <<" ">> \o GrantedToken(text))
    /\ (OAuthSelected /\ pc = "request") =>
          authHeader = Some(tokenType \o <<" ">> \o Val(accessToken))

\* A "Custom" token is replaced by one granted without token_type: Bearer.
C9_Witness ==
    /\ Len(log) = 4
    /\ log[1].resp = HttpOk(TokenJson3)
    /\ log[2].authorization = Some(<<"Custom", " ", "t2">>)
    /\ log[3].resp = HttpOk(TokenJson2)
    /\ log[4].authorization = Some(<<"Bearer", " ", "t2">>)
    /\ tokenType = <<"Bearer">>

(***************************************************************************)
(* C10: get_config raises ConfigurationError exactly when the merged       *)
(* instance is absent or empty or none of the three credential sets is     *)
(* present, presence being truthiness (empty and absent values do not      *)
(* count, a whitespace-only value does, a pair needs both members);        *)
(* otherwise it returns the instance without its trailing slashes.         *)
(***************************************************************************)
Merged(key) == IF environ[key] # None THEN environ[key] ELSE fileVars[key]

Present(v) == v \notin { None, Some(<<>>) }

CredentialsPresent ==
    \/ Present(Merged("api_key"))
    \/ Present(Merged("client_id")) /\ Present(Merged("client_secret"))
    \/ Present(Merged("username")) /\ Present(Merged("password"))

\* out is s without its trailing "/" characters.
IsSlashStripped(s, out) ==
    /\ Len(out) <= Len(s)
    /\ SubSeq(s, 1, Len(out)) = out
    /\ \A k \in (Len(out) + 1)..Len(s) : s[k] = "/"
    /\ Len(out) > 0 => out[Len(out)] # "/"

C10_GetConfigFailsIffIncomplete ==
    cfgPc = "done" =>
        /\ cfgResult.raised = "ConfigurationError" <=>
              (~Present(Merged("instance")) \/ ~CredentialsPresent)
        /\ cfgResult.raised # "ConfigurationError" =>
              /\ cfgResult.raised = ""
              /\ cfgResult.config.instance # None
              /\ IsSlashStripped(Val(Merged("instance")),
                                 Val(cfgResult.config.instance))

\* A whitespace-only api_key is the only credential; the instance ends in "//".
C10_Witness ==
    /\ cfgPc = "done"
    /\ cfgResult.raised = ""
    /\ Merged("api_key") = Some(<<" ">>)
    /\ ~Present(Merged("username"))
    /\ ~Present(Merged("client_id"))
    /\ Merged("instance") = Some(<<"https://e", "/", "/">>)
    /\ cfgResult.config.instance = Some(<<"https://e">>)

(***************************************************************************)
(* C11: every configuration get_config returns has a non-empty instance    *)
(* that does not end in "/", and at least one credential set (api_key, or  *)
(* client_id with client_secret, or username with password) whose members  *)
(* are all non-empty.                                                      *)
(***************************************************************************)
ReturnedCredentials(cfg) ==
    \/ Present(cfg.api_key)
    \/ Present(cfg.client_id) /\ Present(cfg.client_secret)
    \/ Present(cfg.username) /\ Present(cfg.password)

C11_ReturnedConfigComplete ==
    (cfgPc = "done" /\ cfgResult.raised = "") =>
        /\ Present(cfgResult.config.instance)
        /\ Val(cfgResult.config.instance)[Len(Val(cfgResult.config.instance))] # "/"
        /\ ReturnedCredentials(cfgResult.config)

(***************************************************************************)
(* C12: for each of the seven keys the value get_config uses is the        *)
(* environment variable's whenever that variable is set (also when it is   *)
(* set to the empty string), and the config file's only when it is not     *)
(* set: the returned credentials are those values, the returned instance   *)
(* is that value without trailing slashes, the returned timeout is that    *)
(* value as an integer, and an instance set to the empty string in the     *)
(* environment fails the call whatever the file says.                      *)
(***************************************************************************)
Chosen(key) == IF environ[key] = None THEN fileVars[key] ELSE environ[key]

C12_EnvironmentWinsOverFile ==
    cfgPc = "done" =>
        /\ environ.instance = Some(<<>>) => cfgResult.raised = "ConfigurationError"
        /\ cfgResult.raised = "" =>
              /\ \A key \in ConfigKeys \ { "instance", "timeout" } :
                     cfgResult.config[key] = Chosen(key)
              /\ IsSlashStripped(Val(Chosen("instance")),
                                 Val(cfgResult.config.instance))
              /\ cfgResult.config.timeout = TimeoutValue(Chosen("timeout"))

\* File and environment both give the instance, the username and the timeout,
\* with different values; only the file gives the password.
C12_Witness ==
    /\ cfgPc = "done"
    /\ cfgResult.raised = ""
    /\ fileVars.instance = Some(<<"https://h", "/">>)
    /\ environ.instance = Some(<<"https://e">>)
    /\ cfgResult.config.instance = Some(<<"https://e">>)
    /\ fileVars.username = Some(<<"u">>)
    /\ environ.username = Some(<<"a">>)
    /\ cfgResult.config.username = Some(<<"a">>)
    /\ environ.password = None
    /\ cfgResult.config.password = Some(<<"p">>)
    /\ fileVars.timeout = Some(<<"3", "0">>)
    /\ environ.timeout = Some(<<"0">>)
    /\ cfgResult.config.timeout = Some(0)

(***************************************************************************)
(* C13: the client's timeout is the constructor's timeout argument when    *)
(* one is given (0 included), else the configuration's timeout when it has *)
(* one, else 30; and every HTTP call the client makes, token requests and  *)
(* table requests alike, is made with that timeout.                        *)
(***************************************************************************)
C13_TimeoutPrecedence ==
    pc # "unbuilt" =>
        /\ timeoutArg # None => timeout = Val(timeoutArg)
        /\ (timeoutArg = None /\ config.timeout # None) => timeout = Val(config.timeout)
        /\ (timeoutArg = None /\ config.timeout = None) => timeout = 30
        /\ \A i \in 1..Len(log) : log[i].timeout = timeout

\* A client built with timeout 0 over a configuration whose timeout is 5 has
\* made a token request and a table request, both with timeout 0.
C13_Witness ==
    /\ timeoutArg = Some(0)
    /\ config.timeout = Some(5)
    /\ Len(log) = 2
    /\ log[1].endpoint = "token"
    /\ log[1].timeout = 0
    /\ log[2].endpoint = "api"
    /\ log[2].timeout = 0

(***************************************************************************)
(* C19: the URL a get() call requests carries sysparm_query,               *)
(* sysparm_fields, sysparm_order_by and sysparm_display_value exactly for  *)
(* the arguments that are neither absent nor the empty string, and         *)
(* sysparm_limit and sysparm_offset exactly for the arguments that are not *)
(* absent (0 is sent); when none is sent the URL has no query string.      *)
(* As stated, with "not absent" for all six, the claim fails for an empty  *)
(* string.                                                                 *)
(***************************************************************************)
SysparmOf ==
    [ query |-> "sysparm_query", fields |-> "sysparm_fields",
      limit |-> "sysparm_limit", offset |-> "sysparm_offset",
      order_by |-> "sysparm_order_by", display_value |-> "sysparm_display_value" ]

GetArgNames == DOMAIN SysparmOf

\* The requested URL carries the parameter.
UrlHas(url, name) == \E k \in 1..Len(url) : url[k] = name

HasQueryString(url) == \E k \in 1..Len(url) : url[k] = "?"

C19_AsStated ==
    \A i \in 1..Len(log) : \A a \in GetArgNames :
        UrlHas(log[i].url, SysparmOf[a]) <=> getArgs[a] # None

C19_ParameterSentIffTruthyOrNumber ==
    \A i \in 1..Len(log) :
        /\ \A a \in { "query", "fields", "order_by", "display_value" } :
               UrlHas(log[i].url, SysparmOf[a]) <=> getArgs[a] \notin { None, Some(<<>>) }
        /\ \A a \in { "limit", "offset" } :
               UrlHas(log[i].url, SysparmOf[a]) <=> getArgs[a] # None
        /\ HasQueryString(log[i].url) <=>
               \E a \in GetArgNames : UrlHas(log[i].url, SysparmOf[a])

\* An empty query and an empty fields list are left out while limit 0 is sent.
C19_Witness ==
    /\ Len(log) = 1
    /\ getArgs.query = Some(<<>>)
    /\ getArgs.fields = Some(<<>>)
    /\ getArgs.limit = Some(0)
    /\ getArgs.offset = None
    /\ getArgs.order_by = Some(<<"number">>)
    /\ getArgs.display_value = None
    /\ log[1].url = <<"https://h", "/api/now/table", "/", "incident", "?",
                      "sysparm_limit", "=", "0", "&",
                      "sysparm_order_by", "=", "number">>

(***************************************************************************)
(* C20 (as stated): a facade call whose last response is a success returns *)
(* the parsed JSON body, and the empty object when the body is empty; a    *)
(* successful delete(table, sys_id) has issued exactly one DELETE, to the  *)
(* record URL, and returns the empty object.                               *)
(***************************************************************************)
Succeeded ==
    /\ Done
    /\ Len(log) > 0
    /\ IsApi(log[Len(log)])
    /\ log[Len(log)].resp.kind = "ok"

SuccessText == Val(log[Len(log)].resp.text)

RecordUrl == <<"https://h", "/api/now/table", "/", "incident", "/", "abc123">>

EmptyObject == Returned(<<>>)

EndedWithResult ==
    /\ caught.kind = "none"
    /\ Len(stdout) = 1
    /\ stdout[1].kind = "json"
    /\ stderr = <<>>
    /\ exitCode = Some(0)

EndedWithError ==
    /\ caught.kind = "raise"
    /\ stdout = <<>>
    /\ Len(stderr) = 1
    /\ stderr[1].kind = "json"
    /\ stderr[1].data.error = caught.message
    /\ exitCode = Some(1)

C14_Outcome ==
    /\ cliPc # "exited" => (stdout = <<>> /\ stderr = <<>> /\ exitCode = None)
    /\ cliPc = "exited" =>
          /\ EndedWithResult \/ EndedWithError
          /\ ~(EndedWithResult /\ EndedWithError)
          /\ outcome.kind = "raise" => (EndedWithError /\ caught = outcome)
          /\ stdin = BadJson => EndedWithError

C14_MainEndsInOneOutcome == []C14_Outcome /\ <>(cliPc = "exited")

\* A run ended by an exception that is no ServiceNowError: the table API
\* answered 200 with a body that is not JSON.
C14_Witness ==
    /\ cliPc = "exited"
    /\ caught.cls = "JSONDecodeError"
    /\ Len(log) > 0
    /\ log[Len(log)].resp = HttpOk(HtmlText)
    /\ stdout = <<>>
    /\ stderr = << JsonLine([ error |-> "Expecting value", status_code |-> None,
                             details |-> None ]) >>
    /\ exitCode = Some(1)

(***************************************************************************)
(* C15: dispatch_action of every collaborator, called with params whose    *)
(* action is missing, empty or none of the collaborator's action names,    *)
(* raises ValidationError with a message that lists the collaborator's     *)
(* action names.                                                           *)
(***************************************************************************)
\* read_json_input() returned and dispatch_action(params) has been called and
\* has raised or reached its handler's client.get.
DispatchCalled == cliPc \in { "handler", "exited" } /\ stdin # BadJson

ActionGiven == DictGet(cliParams, "action", None)

ActionRecognized ==
    Truthy(ActionGiven) /\ IsBranch(script, Text(Val(ActionGiven)))

RECURSIVE NamesText(_)
NamesText(names) ==
    IF Len(names) = 0 THEN ""
    ELSE IF Len(names) = 1 THEN names[1]
    ELSE names[1] \o ", " \o NamesText(Tail(names))

EndsWith(text, suffix) ==
    /\ Len(text) >= Len(suffix)
    /\ SubSeq(text, Len(text) - Len(suffix) + 1, Len(text)) = suffix

Contains(text, part) ==
    \E i \in 1..(Len(text) - Len(part) + 1) :
        SubSeq(text, i, i + Len(part) - 1) = part

C15_InvalidActionIsValidationError ==
    (DispatchCalled /\ ~ActionRecognized) =>
        /\ caught.kind = "raise"
        /\ caught.cls = "ValidationError"
        /\ EndsWith(caught.message,
                    "Valid actions: " \o NamesText(Branches(script)))

(***************************************************************************)
(* C16 (as stated): dispatch_action called with an action that has a       *)
(* required parameter (sys_id, number, name, search_term, ip_address,      *)
(* serial_number, or one of request_number and request_sys_id) and without *)
(* that parameter, or with an empty value for it, raises ValidationError   *)
(* with a message that names the parameter, and no HTTP request is made.   *)
(***************************************************************************)
RequiredParamMissing ==
    /\ ActionRecognized
    /\ RequiredParams(Text(Val(ActionGiven))) # <<>>
    /\ \A i \in 1..Len(RequiredParams(Text(Val(ActionGiven)))) :
           DictGet(cliParams, RequiredParams(Text(Val(ActionGiven)))[i], None)
               \in { None, Some(<<>>) }

C16_AsStated ==
    (DispatchCalled /\ RequiredParamMissing) =>
        /\ caught.kind = "raise"
        /\ caught.cls = "ValidationError"
        /\ \A i \in 1..Len(RequiredParams(Text(Val(ActionGiven)))) :
               Contains(caught.message, RequiredParams(Text(Val(ActionGiven)))[i])
        /\ log = <<>>

(***************************************************************************)
(* C16 (amended): dispatch_action called with an action that has a         *)
(* required parameter and without that parameter, or with an empty value   *)
(* for it, makes no HTTP request and raises: the ConfigurationError of     *)
(* create_client() when the configuration is incomplete, and otherwise     *)
(* ValidationError with a message that names the parameter (both           *)
(* parameters for status).                                                 *)
(***************************************************************************)
ConfigurationComplete == Present(Merged("instance")) /\ CredentialsPresent

C16_MissingParameterRaisesBeforeRequest ==
    (DispatchCalled /\ RequiredParamMissing) =>
        /\ log = <<>>
        /\ cliPc = "exited"
        /\ caught.kind = "raise"
        /\ ~ConfigurationComplete => caught.cls = "ConfigurationError"
        /\ ConfigurationComplete =>
              /\ caught.cls = "ValidationError"
              /\ \A i \in 1..Len(RequiredParams(Text(Val(ActionGiven)))) :
                     Contains(caught.message,
                              RequiredParams(Text(Val(ActionGiven)))[i])

\* The catalog's status action with both parameters empty, under a complete
\* configuration.
C16_Witness ==
    /\ cliPc = "exited"
    /\ script = "catalog"
    /\ ConfigurationComplete
    /\ cliParams = << <<"action", <<"status">> >>, <<"request_number", <<>> >>,
                      <<"request_sys_id", <<>> >> >>
    /\ caught.cls = "ValidationError"
    /\ caught.message =
           "Either request_number or request_sys_id is required for status action"
    /\ log = <<>>

(***************************************************************************)
(* C17 (as stated): the dict to_dict gives for a ServiceNowError has the   *)
(* message under 'error', has 'status_code' exactly when the error has a   *)
(* status code, and has 'details' exactly when the error has a response    *)
(* body: the parsed JSON when the body is JSON, the raw text otherwise.    *)
(***************************************************************************)
\* main() ended on a ServiceNowError, whose to_dict() was written to stderr.
ServiceNowErrorWritten ==
    /\ cliPc = "exited"
    /\ caught.kind = "raise"
    /\ IsServiceNowError(caught.cls)

Written == stderr[1].data

DetailsAreBody ==
    Written.details # None =>
        Val(Written.details) =
            (IF Val(caught.body) = ErrorJson
             THEN << <<"error", <<"denied">> >> >>
             ELSE Val(caught.body))

C17_AsStated ==
    ServiceNowErrorWritten =>
        /\ Written.error = caught.message
        /\ Written.status_code = caught.status
        /\ Written.details # None <=> caught.body # None
        /\ DetailsAreBody

(***************************************************************************)
(* C17 (amended): the dict to_dict gives for a ServiceNowError has the     *)
(* message under 'error', has 'status_code' exactly when the error has a   *)
(* status code other than 0, and has 'details' exactly when the error has  *)
(* a response body that is not the empty string: the parsed JSON when the  *)
(* body is JSON, the raw text otherwise.                                   *)
(***************************************************************************)
C17_ToDictKeepsTruthyParts ==
    ServiceNowErrorWritten =>
        /\ Written.error = caught.message
        /\ Written.status_code # None <=> caught.status \notin { None, Some(0) }
        /\ Written.status_code # None => Written.status_code = caught.status
        /\ Written.details # None <=> caught.body \notin { None, Some(<<>>) }
        /\ DetailsAreBody

\* A 404 with a JSON body: status code and parsed details are written.
C17_Witness ==
    /\ ServiceNowErrorWritten
    /\ caught.cls = "NotFoundError"
    /\ caught.status = Some(404)
    /\ caught.body = Some(ErrorJson)
    /\ Written = [ error |-> "Resource not found", status_code |-> Some(404),
                   details |-> Some(<< <<"error", <<"denied">> >> >>) ]

(***************************************************************************)
(* C18: read_json_input returns the empty dict when standard input is      *)
(* empty or holds only white space, returns the parsed document when the   *)
(* input is valid JSON (white space around it allowed), and raises         *)
(* ValidationError with a message containing 'Invalid JSON input' when the *)
(* input is malformed.                                                     *)
(***************************************************************************)
Blank(text) == \A i \in 1..Len(text) : text[i] \in { " ", "\t", "\n", "\r" }

\* text is the document doc with white space around it.
IsDocument(text, doc) ==
    \E i, j \in 1..Len(text) :
        /\ SubSeq(text, i, j) = doc
        /\ Blank(SubSeq(text, 1, i - 1))
        /\ Blank(SubSeq(text, j + 1, Len(text)))

InvalidJsonRaised ==
    /\ cliPc = "exited"
    /\ caught.kind = "raise"
    /\ caught.cls = "ValidationError"
    /\ Contains(caught.message, "Invalid JSON input")

InvalidTimeoutString ==
    /\ Truthy(Chosen("timeout"))
    /\ ~IsIntLiteral(Val(Chosen("timeout")))

C21_InvalidTimeoutWarnsOnce ==
    (cfgPc = "done" /\ InvalidTimeoutString) =>
        /\ cfgResult.raised = "ConfigurationError" <=>
              \/ InstanceMissing(MergedConfig(environ, fileVars))
              \/ NoValidAuth(MergedConfig(environ, fileVars))
        /\ cfgResult.raised = "" => cfgResult.config.timeout = None
        /\ Len(cfgResult.warnings) = 1
        /\ Contains(cfgResult.warnings[1], Text(Val(Chosen("timeout"))))

(***************************************************************************)
(* C22: the timeout of every configuration get_config returns is absent or *)
(* a positive integer, whatever SERVICENOW_TIMEOUT is in the file or the   *)
(* environment.                                                            *)
(***************************************************************************)
C22_TimeoutAbsentOrPositive ==
    (cfgPc = "done" /\ cfgResult.raised = "") =>
        \/ cfgResult.config.timeout = None
        \/ Val(cfgResult.config.timeout) > 0

(***************************************************************************)
(* C23: for a value wrapped in matching single or double quotes the        *)
(* loader strips the quotes and resolves, reading from the left, the       *)
(* escaped quote character, the escaped backslash and the \n, \t and \r    *)
(* sequences (to newline, tab and carriage return), so that an escaped     *)
(* backslash followed by n, t or r stays a backslash and that letter; an   *)
(* unquoted value is returned with its escape sequences unprocessed.       *)
(***************************************************************************)
EscapeOf(c) ==
    CASE c = "n" -> "\n" [] c = "t" -> "\t" [] c = "r" -> "\r" [] OTHER -> c

RECURSIVE Resolved(_, _)
Resolved(inner, quote) ==
    IF inner = <<>> THEN <<>>
    ELSE IF /\ Len(inner) >= 2
            /\ inner[1] = "\\"
            /\ inner[2] \in { quote, "\\", "n", "t", "r" }
    THEN <<EscapeOf(inner[2])>> \o Resolved(SubSeq(inner, 3, Len(inner)), quote)
    ELSE <<inner[1]>> \o Resolved(Tail(inner), quote)

Inner(value) == SubSeq(Strip(value), 2, Len(Strip(value)) - 1)

C23_QuotedValueResolved ==
    loadPc = "done" =>
        IF IsQuoted(Strip(rawValue), "\"")
        THEN parsedValue = Resolved(Inner(rawValue), "\"")
        ELSE IF IsQuoted(Strip(rawValue), "'")
        THEN parsedValue = Resolved(Inner(rawValue), "'")
        ELSE parsedValue = Strip(rawValue)

(***************************************************************************)
(* C24 (as stated): load_env_file produces an entry for a line exactly     *)
(* when the trimmed line is non-blank, does not begin with '#' and         *)
(* contains '='; the key is the text before the first '=' with surrounding *)
(* whitespace trimmed and the value is everything after the first '=';     *)
(* when no candidate file exists the result is an empty mapping.           *)
(***************************************************************************)
FileLines == IF envFile = None THEN <<>> ELSE Val(envFile)

RECURSIVE UpToEquals(_)
UpToEquals(s) ==
    IF s = <<>> \/ s[1] = "=" THEN <<>> ELSE <<s[1]>> \o UpToEquals(Tail(s))

AfterEquals(s) == SubSeq(s, Len(UpToEquals(s)) + 2, Len(s))

EntryLines ==
    { i \in 1..Len(FileLines) :
        LET line == Strip(FileLines[i])
        IN  /\ line # <<>>
            /\ line[1] # "#"
            /\ \E at \in 1..Len(line) : line[at] = "=" }

KeyOfLine(i) == Strip(UpToEquals(Strip(FileLines[i])))

\* The last line that gives key k: a later line with the same key replaces
\* the value of an earlier one.
LastLineFor(k) ==
    CHOOSE i \in EntryLines :
        KeyOfLine(i) = k /\ \A j \in EntryLines : KeyOfLine(j) = k => j <= i

Keys(d) == { d[n][1] : n \in 1..Len(d) }

EntriesMatchLines ==
    /\ envFile = None => env_vars = <<>>
    /\ Keys(env_vars) = { KeyOfLine(i) : i \in EntryLines }
    /\ Cardinality(Keys(env_vars)) = Len(env_vars)

StoredValue(rest) ==
    IF IsQuoted(Strip(rest), "\"") \/ IsQuoted(Strip(rest), "'")
    THEN parse_quoted_value(rest)
    ELSE Strip(rest)

C25_NoEmptyKey ==
    loadPc = "done" => <<>> \notin Keys(env_vars)

(***************************************************************************)
(* C26: the incidents query action joins the supplied conditions with '^'  *)
(* in the order state, urgency, impact, assignment_group, active, then the *)
(* caller's raw query, booleans rendered as true/false; when no condition  *)
(* is supplied no sysparm_query is sent; the action returns the response's *)
(* result array, an empty list for a response of {"result": []}.           *)
(***************************************************************************)
QueryRun ==
    /\ script = "incidents"
    /\ DispatchCalled
    /\ ActionGiven = Some(<<"query">>)

FilterOrder ==
    <<"state", "urgency", "impact", "assignment_group", "active", "query">>

\* A raw query that is the empty string is no condition.
IsSupplied(name) ==
    IF name = "query" THEN Truthy(DictGet(cliParams, name, None))
    ELSE DictGet(cliParams, name, None) # None

ConditionText(name) ==
    LET v == Val(DictGet(cliParams, name, None))
    IN  IF name = "query" THEN v
        ELSE IF name = "active"
        THEN <<"active", "=", IF v = PyBool(TRUE) THEN "true" ELSE "false">>
        ELSE <<name, "=">> \o v

SuppliedNames == SelectSeq(FilterOrder, IsSupplied)

ExpectedFilter ==
    Join([ i \in 1..Len(SuppliedNames) |-> ConditionText(SuppliedNames[i]) ], "^")

ResultArrayOf(text) ==
    CASE text = ResultJson -> <<>>
      [] text = ListJson -> << << <<"sys_id", <<"abc123">> >> >> >>
      [] text = <<>> -> <<>>

C26_QueryFilterAndResult ==
    QueryRun =>
        /\ \A i \in 1..Len(ApiLog) :
              IF SuppliedNames = <<>>
              THEN ~UrlHas(ApiLog[i].url, "sysparm_query")
              ELSE Contains(ApiLog[i].url,
                            <<"?", "sysparm_query", "=">>
                                \o QuotePlus(ExpectedFilter) \o <<"&">>)
        /\ (cliPc = "exited" /\ exitCode = Some(0)) =>
              /\ ApiLog # <<>>
              /\ stdout = << JsonLine(ResultArrayOf(SuccessText)) >>

C26_Witness ==
    /\ QueryRun
    /\ cliPc = "exited"
    /\ exitCode = Some(0)
    /\ cliParams = << <<"action", <<"query">> >>, <<"state", <<"1">> >>,
                      <<"active", PyBool(TRUE)>> >>
    /\ Len(log) > 0
    /\ Contains(log[1].url,
                <<"sysparm_query", "=", "state", "%", "3", "D", "1", "%", "5", "E",
                  "active", "%", "3", "D", "true", "&">>)
    /\ SuccessText = ResultJson
    /\ stdout = << JsonLine(<<>>) >>

(***************************************************************************)
(* C27: whatever the server answers, a facade call issues at most two      *)
(* table-API requests and at most two token requests, and it ends with a   *)
(* result or an error.  The retry allowance is the call's, not the         *)
(* client's: a first-attempt 401 under OAuth is retried on every call of a *)
(* client, also after an earlier call that used its retry (the retry       *)
(* starts with a token request and re-issues the request once the token    *)
(* is granted).                                                            *)
(***************************************************************************)
IsToken(e) == e.endpoint = "token"

TokenLog == SelectSeq(log, IsToken)

C27_CallBounded ==
    /\ Len(ApiLog) <= 2
    /\ Len(TokenLog) <= 2
    /\ (Done /\ OAuthSelected) =>
          \A i \in 1..Len(log) :
              (FirstApiAt(i) /\ Is401(log[i])) =>
                  /\ Len(log) > i
                  /\ IsToken(log[i + 1])
                  /\ TokenGranted(log[i + 1]) => Len(ApiLog) = 2

NoUnauthorized ==
    /\ ~past.unauthorized
    /\ \A i \in 1..Len(log) : ~Is401(log[i])

\* The token requests made on the client so far.
TokenRequestsSoFar == past.tokenRequests + Len(TokenLog)

C28_AsStated ==
    (OAuthSelected /\ NoUnauthorized) =>
        /\ TokenRequestsSoFar <= 1
        /\ ApiLog # <<>> => TokenRequestsSoFar = 1
        /\ (ncalls = 1 /\ log # <<>>) => IsToken(log[1])
        /\ ncalls > 1 => TokenLog = <<>>

(***************************************************************************)
(* C28 (amended): under OAuth, as long as no response on the client has    *)
(* been a 401, a call requests a token exactly when none is cached as it   *)
(* begins, once and before any table-API request, and sends its table-API  *)
(* request only when that request granted one; a call that begins with a   *)
(* cached token (every call after the grant) reuses it without contacting  *)
(* the token endpoint, so the endpoint is requested exactly once when its  *)
(* first answer grants a token.                                            *)
(***************************************************************************)
C28_TokenRequestedUntilGranted ==
    (OAuthSelected /\ NoUnauthorized /\ ncalls > 0) =>
        /\ TokenRequestsSoFar <= ncalls
        /\ Truthy(tokenAtStart) =>
              /\ TokenLog = <<>>
              /\ past.tokenRequests >= 1
              /\ accessToken = tokenAtStart
        /\ ~Truthy(tokenAtStart) =>
              /\ past.tokenRequests = ncalls - 1
              /\ log # <<>> => IsToken(log[1])
              /\ Len(TokenLog) <= 1
              /\ ApiLog # <<>> => TokenGranted(log[1])
              /\ Done => Len(TokenLog) = 1
        /\ Len(ApiLog) <= 1
        /\ (ncalls = 2 /\ past.tokenRequests = 1 /\ Truthy(tokenAtStart)) =>
              TokenRequestsSoFar = 1

\* The second call of a client reuses the token its first call was granted.
C28_Witness ==
    /\ Done
    /\ OAuthSelected
    /\ NoUnauthorized
    /\ ncalls = 2
    /\ past.tokenRequests = 1
    /\ Truthy(tokenAtStart)
    /\ Len(log) = 1
    /\ IsApi(log[1])
    /\ outcome.kind = "return"

(***************************************************************************)
(* The call that was retried after an OAuth 401, and its second response.   *)
(***************************************************************************)
\* The call has ended after a second table-API request that followed a 401.
RetriedAfter401 ==
    /\ Done
    /\ OAuthSelected
    /\ Len(ApiLog) = 2
    /\ Is401(ApiLog[1])

SecondResponse == ApiLog[2].resp

\* The error of the second response: its class, status code and body.
RaisesSecondError ==
    /\ outcome.kind = "raise"
    /\ IF SecondResponse.kind = "url"
       THEN /\ outcome.cls = "ServiceNowError"
            /\ outcome.message = "Failed to connect to ServiceNow"
            /\ outcome.status = None
            /\ outcome.body = None
       ELSE /\ outcome.cls = KindOfStatus(SecondResponse.code)
            /\ outcome.status = Some(SecondResponse.code)
            /\ outcome.body = SecondResponse.text

(***************************************************************************)
(* C29: when an OAuth 401 triggers the retry, the outcome of the call is   *)
(* determined by the second table-API response alone: a success returns    *)
(* that response's parsed body ({} for an empty body), and an HTTP error   *)
(* or a transport failure raises the error mapped for that response with   *)
(* the second response's status code and body, never those of the first    *)
(* 401.                                                                    *)
(***************************************************************************)
C29_SecondResponseDecides ==
    RetriedAfter401 =>
        IF SecondResponse.kind = "ok"
        THEN /\ outcome.kind = "return"
             /\ \/ Val(SecondResponse.text) = <<>> /\ outcome.value = <<>>
                \/ /\ JsonLoads(Val(SecondResponse.text)).ok
                   /\ outcome.value = JsonLoads(Val(SecondResponse.text)).value
        ELSE RaisesSecondError

\* The calls on which the statement fails: the second response is a success
\* whose body is neither empty nor JSON, and json.loads raises.
SecondBodyNotJson ==
    /\ RetriedAfter401
    /\ SecondResponse.kind = "ok"
    /\ Val(SecondResponse.text) # <<>>
    /\ ~JsonLoads(Val(SecondResponse.text)).ok
    /\ outcome = JsonDecodeRaised

(***************************************************************************)
(* A token request that did not grant a token: an HTTP error, a transport  *)
(* failure, or a response without access_token.                            *)
(***************************************************************************)
TokenFailed(e) == IsToken(e) /\ ~TokenGranted(e)

\* The call ended with the failed token request, leaving no token cached.
EndsWithoutToken(i) ==
    /\ i = Len(log)
    /\ pc = "idle"
    /\ outcome.kind = "raise"
    /\ ~Truthy(accessToken)

(***************************************************************************)
(* C30: when a token request fails, on first use or in the refresh after a *)
(* 401, no table-API request follows it in the call, the call raises       *)
(* AuthenticationError and no token is left cached, so that the next call  *)
(* begins by requesting a token again.                                     *)
(***************************************************************************)
C30_TokenFailureIsAuthenticationError ==
    /\ \A i \in 1..Len(log) :
          TokenFailed(log[i]) =>
              /\ EndsWithoutToken(i)
              /\ outcome.cls = "AuthenticationError"
    /\ (OAuthSelected /\ ncalls > 0 /\ ~Truthy(tokenAtStart) /\ log # <<>>) =>
          IsToken(log[1])

\* The calls on which the statement fails: the token response is a success
\* whose body is not JSON, and json.loads raises.
TokenBodyNotJson ==
    /\ log # <<>>
    /\ TokenFailed(LastExchange)
    /\ EndsWithoutToken(Len(log))
    /\ LastExchange.resp = HttpOk(HtmlText)
    /\ outcome = JsonDecodeRaised
    /\ \A i \in 1..(Len(log) - 1) : ~TokenFailed(log[i])

=============================================================================
